---- MODULE Spec2Model ----
(***************************************************************************)
(* Transaction engine of ovsdb-etcd (pkg/ovsdb/transact.go): the two-pass  *)
(* executor Transaction.Commit, the per-operation pre/do handlers, the row *)
(* cache, the named-UUID map, the etcd transaction buffer with its event   *)
(* compaction, and the per-database transaction lock.                      *)
(*                                                                         *)
(* Values.  A typed value is a string, an integer, a UUID [GoUUID |-> s],  *)
(* a set [GoSet |-> <<...>>] or a map [GoMap |-> f].  The JSON (wire) form *)
(* of a UUID is [tag |-> "uuid" or "named-uuid", val |-> s], of a set      *)
(* [tag |-> "set", val |-> <<...>>], of a map [tag |-> "map", val |-> the  *)
(* set of <<key, value>> pairs]; strings and integers are their own wire   *)
(* form.  A nil pointer field of an Operation is a field missing from the  *)
(* record.                                                                 *)
(***************************************************************************)
EXTENDS Integers, Sequences, FiniteSets, TLC

\* ------------------------------------------------------------------ bounds
MaxOps == 3
MaxClock == 2

\* --------------------------------------------------------- error strings
E_DUP_UUIDNAME == "duplicate uuid-name"
E_CONSTRAINT_VIOLATION == "constraint violation"
E_DOMAIN_ERROR == "domain error"
E_TIMEOUT == "timed out"
E_NOT_SUPPORTED == "not supported"
E_ABORTED == "aborted"
E_INTEGRITY_VIOLATION == "referential integrity violation"
E_IO_ERROR == "I/O error"
E_DUP_UUID == "duplicate uuid"
E_INTERNAL_ERROR == "internal error"
\* the nil error
OK == "nil"

COL_UUID == "_uuid"
COL_VERSION == "_version"

OP_INSERT == "insert"
OP_SELECT == "select"
OP_UPDATE == "update"
OP_MUTATE == "mutate"
OP_DELETE == "delete"
OP_WAIT == "wait"
OP_COMMIT == "commit"
OP_ABORT == "abort"
OP_COMMENT == "comment"
OP_ASSERT == "assert"

FN_LT == "<"
FN_LE == "<="
FN_EQ == "=="
FN_NE == "!="
FN_GE == ">="
FN_GT == ">"
FN_IN == "includes"
FN_EX == "excludes"

MT_SUM == "+="
MT_DIFFERENCE == "-="
MT_PRODUCT == "*="
MT_QUOTIENT == "/="
MT_REMAINDER == "%="
MT_INSERT == "insert"
MT_DELETE == "delete"

\* ------------------------------------------------------- universe of data
Txns == {1, 2}
DBName == "simple"
CommentTable == "_comment"

\* well-formed UUIDs a client can name, and uuid-names
ClientUUIDs == {"u1", "u2"}
UUIDNames == {"n1", "n2"}

\* common.GenerateUUID: the n-th UUID generated by transaction t (fresh)
GenerateUUID(t, n) == "g" \o ToString(t) \o "-" \o ToString(n)

GeneratedUUIDs == {GenerateUUID(t, n) : t \in Txns, n \in 1..(2 * (MaxOps + 1))}

\* libovsdb.UUID.ValidateUUID: nil error iff the string is a well-formed UUID
ValidateUUID(s) == s \in ClientUUIDs \cup GeneratedUUIDs

\* time.Now().Format(time.RFC3339) at clock tick c
Timestamp(c) == "T" \o ToString(c)

Unlimited == -1

\* The database schema handed to the transaction (schema registry).
Schema ==
  [table1 |->
     [key1 |-> [Type |-> "string"],
      key2 |-> [Type |-> "integer"],
      refs |-> [Type |-> "set", Key |-> "uuid", Min |-> 0, Max |-> Unlimited],
      rmap |-> [Type |-> "map", Key |-> "uuid", Value |-> "uuid",
                Min |-> 0, Max |-> Unlimited]],
   \* the table of testSchemaExtended, kept in the one database of the model
   table2 |->
     [set |-> [Type |-> "set", Key |-> "string", Min |-> 0, Max |-> Unlimited],
      map |-> [Type |-> "map", Key |-> "string", Value |-> "string",
               Min |-> 1, Max |-> 1]],
   \* a table with an integer and a real column (libovsdb.TypeReal)
   table3 |->
     [integer |-> [Type |-> "integer"],
      real |-> [Type |-> "real"]]]

Tables == DOMAIN Schema

\* libovsdb.Schemas.LookupTable: is the table known
LookupTable(table) == table \in Tables

\* libovsdb.TableSchema.LookupColumn: is the column one of the table's schema
LookupColumn(table, column) == column \in DOMAIN Schema[table]

UUIDColumn == [Type |-> "uuid"]

ColumnSchema(table, column) ==
  IF column \in {COL_UUID, COL_VERSION} THEN UUIDColumn ELSE Schema[table][column]

\* the base type of the elements of a set, the keys and the values of a map
BaseType(type) == [Type |-> type]

\* common.NewDataKey / NewTableKey / NewCommentKey
NewDataKey(db, table, uuid) == [DBName |-> db, TableName |-> table, UUID |-> uuid]

NewTableKey(db, table) == NewDataKey(db, table, "")

NewCommentKey(timestamp) == NewDataKey(DBName, CommentTable, timestamp)

\* a key as a prefix (clientv3.WithPrefix): the table prefix matches every row
\* of the table, a data key matches the row it names
KeyHasPrefix(key, prefix) ==
  /\ key.DBName = prefix.DBName
  /\ key.TableName = prefix.TableName
  /\ (prefix.UUID = "" \/ key.UUID = prefix.UUID)

\* ------------------------------------------------------------- sequences
Range(s) == {s[i] : i \in DOMAIN s}

RECURSIVE SetToSeqs(_)
\* every ordering of a finite set (the iteration orders of a Go map)
SetToSeqs(S) ==
  IF S = {} THEN {<<>>}
  ELSE UNION {{<<x>> \o s : s \in SetToSeqs(S \ {x})} : x \in S}

RECURSIVE SelectIdx(_, _, _)
\* the subsequence of s at the indices in keep, in order, from index i on
SelectIdx(s, keep, i) ==
  IF i > Len(s) THEN <<>>
  ELSE (IF i \in keep THEN <<s[i]>> ELSE <<>>) \o SelectIdx(s, keep, i + 1)

EmptyMap == [x \in {} |-> x]

\* a local variable: v is computed once and named in F
Let(v, F(_)) == F(v)

\* ------------------------------------------------------------ the values
IsWire(v) == "tag" \in DOMAIN v

\* libovsdb.UnmarshalUUID: ["uuid", s] and ["named-uuid", s] both give UUID{s}
UnmarshalUUID(v) == IF IsWire(v) THEN [GoUUID |-> v.val] ELSE v

UnmarshalBase(base, v) == IF base.Type = "uuid" THEN UnmarshalUUID(v) ELSE v

\* libovsdb.ColumnSchema.Unmarshal: the typed value of a wire value (a typed
\* value is left as it is)
ColumnUnmarshal(cs, v) ==
  CASE cs.Type = "uuid" -> UnmarshalUUID(v)
    [] cs.Type = "set" ->
         IF IsWire(v)
         THEN [GoSet |-> [i \in DOMAIN v.val |-> UnmarshalBase(BaseType(cs.Key), v.val[i])]]
         ELSE v
    [] cs.Type = "map" ->
         IF IsWire(v)
         THEN [GoMap |->
                 [k \in {UnmarshalBase(BaseType(cs.Key), p[1]) : p \in v.val} |->
                    LET p == CHOOSE q \in v.val : UnmarshalBase(BaseType(cs.Key), q[1]) = k
                    IN UnmarshalBase(BaseType(cs.Value), p[2])]]
         ELSE v
    [] OTHER -> v

\* libovsdb.TableSchema.Unmarshal: every column of the row
RowUnmarshal(table, row) ==
  [c \in DOMAIN row |-> ColumnUnmarshal(ColumnSchema(table, c), row[c])]

\* json.Marshal of a typed value (libovsdb's MarshalJSON methods)
MarshalUUID(v) ==
  [tag |-> IF ValidateUUID(v.GoUUID) THEN "uuid" ELSE "named-uuid", val |-> v.GoUUID]

MarshalBase(base, v) == IF base.Type = "uuid" THEN MarshalUUID(v) ELSE v

ColumnMarshal(cs, v) ==
  CASE cs.Type = "uuid" -> MarshalUUID(v)
    [] cs.Type = "set" ->
         [tag |-> "set",
          val |-> [i \in DOMAIN v.GoSet |-> MarshalBase(BaseType(cs.Key), v.GoSet[i])]]
    [] cs.Type = "map" ->
         [tag |-> "map",
          val |-> {<<MarshalBase(BaseType(cs.Key), k),
                     MarshalBase(BaseType(cs.Value), v.GoMap[k])>> : k \in DOMAIN v.GoMap}]
    [] OTHER -> v

\* makeValue: the JSON text of a row
makeValue(table, row) ==
  [c \in DOMAIN row |-> ColumnMarshal(ColumnSchema(table, c), row[c])]

\* is the UUID a named-uuid reference (not well-formed)
IsNamedUUID(u) == u.GoUUID # "" /\ ~ValidateUUID(u.GoUUID)

BaseValidate(base, v) == base.Type = "uuid" => ~IsNamedUUID(v)

CardinalityOK(cs, n) == n >= cs.Min /\ (cs.Max = Unlimited \/ n <= cs.Max)

\* libovsdb.ColumnSchema.Validate: nil error iff the typed value is legal for
\* the column
ColumnValidate(cs, v) ==
  CASE cs.Type = "uuid" -> ~IsNamedUUID(v)
    [] cs.Type = "set" ->
         /\ \A i \in DOMAIN v.GoSet : BaseValidate(BaseType(cs.Key), v.GoSet[i])
         /\ CardinalityOK(cs, Len(v.GoSet))
    [] cs.Type = "map" ->
         /\ \A k \in DOMAIN v.GoMap :
              /\ BaseValidate(BaseType(cs.Key), k)
              /\ BaseValidate(BaseType(cs.Value), v.GoMap[k])
         /\ CardinalityOK(cs, Cardinality(DOMAIN v.GoMap))
    [] OTHER -> TRUE

\* libovsdb.TableSchema.Validate
RowValidate(table, row) ==
  \A c \in DOMAIN row :
    /\ c \in {COL_UUID, COL_VERSION} \/ LookupColumn(table, c)
    /\ ColumnValidate(ColumnSchema(table, c), row[c])

\* a float64, kept as the fraction num / den with den > 0
Real(num, den) == [num |-> num, den |-> den]

ColumnDefault(cs) ==
  CASE cs.Type = "string" -> ""
    [] cs.Type = "integer" -> 0
    [] cs.Type = "real" -> Real(0, 1)
    [] cs.Type = "set" -> [GoSet |-> <<>>]
    [] cs.Type = "map" -> [GoMap |-> EmptyMap]

\* libovsdb.Schemas.Default: the schema default for every column the row lacks
RowDefault(table, row) ==
  [c \in DOMAIN row \cup DOMAIN Schema[table] |->
     IF c \in DOMAIN row THEN row[c] ELSE ColumnDefault(Schema[table][c])]

\* ------------------------------------------------------ value equality
isEqualValue(expected, actual) == expected = actual

isEqualSet(expected, actual) ==
  \A i \in DOMAIN expected.GoSet :
    \E j \in DOMAIN actual.GoSet : isEqualValue(expected.GoSet[i], actual.GoSet[j])

isEqualMap(expected, actual) ==
  \A k \in DOMAIN expected.GoMap :
    /\ k \in DOMAIN actual.GoMap
    /\ isEqualValue(expected.GoMap[k], actual.GoMap[k])

isEqualColumn(cs, expected, actual) ==
  CASE cs.Type = "set" -> isEqualSet(expected, actual)
    [] cs.Type = "map" -> isEqualMap(expected, actual)
    [] OTHER -> isEqualValue(expected, actual)

\* ------------------------------------------------------ named-UUID map
\* MapUUID.Get without its check of ok: a missing name reads as the zero
\* value of the Go map, the empty string, and no error (a variant the
\* named-UUID property must tell apart)
MapUUIDGetNoCheck(mapUUID, uuidName) ==
  [err |-> OK, val |-> IF uuidName \in DOMAIN mapUUID THEN mapUUID[uuidName] ELSE ""]

\* MapUUID.Get
MapUUIDGet(mapUUID, uuidName) ==
  IF uuidName \in DOMAIN mapUUID
  THEN [err |-> OK, val |-> mapUUID[uuidName]]
  ELSE [err |-> E_CONSTRAINT_VIOLATION, val |-> ""]

\* MapUUID.Set
MapUUIDSet(mapUUID, uuidName, uuid) ==
  [n \in DOMAIN mapUUID \cup {uuidName} |-> IF n = uuidName THEN uuid ELSE mapUUID[n]]

\* MapUUID.ResolvUUID; isUUID is whether the value is a libovsdb.UUID
ResolvUUID(mapUUID, isUUID, value) ==
  IF isUUID /\ value.GoUUID # "" /\ ~ValidateUUID(value.GoUUID)
  THEN Let(MapUUIDGet(mapUUID, value.GoUUID), LAMBDA got :
         IF got.err # OK
         THEN [err |-> got.err, val |-> value]
         ELSE [err |-> OK, val |-> [GoUUID |-> got.val]])
  ELSE [err |-> OK, val |-> value]

\* MapUUID.ResolvSet: every element, in order
ResolvSet(mapUUID, base, value) ==
  Let([i \in DOMAIN value.GoSet |->
         ResolvUUID(mapUUID, base.Type = "uuid", value.GoSet[i])], LAMBDA res :
    IF \E i \in DOMAIN res : res[i].err # OK
    THEN [err |-> res[CHOOSE i \in DOMAIN res :
                        /\ res[i].err # OK
                        /\ \A j \in DOMAIN res : j < i => res[j].err = OK].err,
          val |-> value]
    ELSE [err |-> OK, val |-> [GoSet |-> [i \in DOMAIN res |-> res[i].val]]])

\* MapUUID.ResolvMap: the values of the map only; the keys are copied
ResolvMap(mapUUID, base, value) ==
  Let([k \in DOMAIN value.GoMap |->
         ResolvUUID(mapUUID, base.Type = "uuid", value.GoMap[k])], LAMBDA res :
    IF \E k \in DOMAIN res : res[k].err # OK
    THEN [err |-> E_CONSTRAINT_VIOLATION, val |-> value]
    ELSE [err |-> OK, val |-> [GoMap |-> [k \in DOMAIN res |-> res[k].val]]])

\* MapUUID.Resolv: by the dynamic type of the value
Resolv(mapUUID, cs, value) ==
  CASE cs.Type = "uuid" -> ResolvUUID(mapUUID, TRUE, value)
    [] cs.Type = "set" -> ResolvSet(mapUUID, BaseType(cs.Key), value)
    [] cs.Type = "map" -> ResolvMap(mapUUID, BaseType(cs.Value), value)
    [] OTHER -> [err |-> OK, val |-> value]

\* MapUUID.ResolvRow: every column; the columns that resolve are rewritten in
\* place also when another column fails
ResolvRow(mapUUID, table, row) ==
  Let([c \in DOMAIN row |-> Resolv(mapUUID, ColumnSchema(table, c), row[c])],
      LAMBDA res :
    [err |-> IF \E c \in DOMAIN row : res[c].err # OK
             THEN E_CONSTRAINT_VIOLATION ELSE OK,
     val |-> [c \in DOMAIN row |-> res[c].val]])

\* RowPrepare: unmarshal, resolve named-uuids, validate
RowPrepare(table, mapUUID, row) ==
  IF \E c \in DOMAIN row : c \notin {COL_UUID, COL_VERSION} /\ ~LookupColumn(table, c)
  THEN [err |-> E_CONSTRAINT_VIOLATION, val |-> row]
  ELSE Let(ResolvRow(mapUUID, table, RowUnmarshal(table, row)), LAMBDA res :
         IF res.err # OK
         THEN [err |-> E_CONSTRAINT_VIOLATION, val |-> res.val]
         ELSE IF ~RowValidate(table, res.val)
              THEN [err |-> E_CONSTRAINT_VIOLATION, val |-> res.val]
              ELSE [err |-> OK, val |-> res.val])

\* --------------------------------------------------- condition algebra
\* NewCondition: a condition [Column, Function, Value] compiled against the
\* table schema; the value is unmarshalled and named-uuid-resolved
NewCondition(table, mapUUID, condition) ==
  LET column == condition.Column
      schemaless == column \in {COL_UUID, COL_VERSION}
  IN IF ~schemaless /\ ~LookupColumn(table, column)
     THEN [err |-> E_CONSTRAINT_VIOLATION, val |-> condition]
     ELSE IF column = COL_VERSION
          THEN [err |-> OK, val |-> condition]
          ELSE Let(ColumnSchema(table, column), LAMBDA cs :
               Let(Resolv(mapUUID, cs, ColumnUnmarshal(cs, condition.Value)),
                   LAMBDA res :
                 IF res.err # OK
                 THEN [err |-> E_INTERNAL_ERROR, val |-> condition]
                 ELSE [err |-> OK, val |-> [condition EXCEPT !.Value = res.val]]))

\* Condition.CompareInteger / CompareReal: all six relations
CompareInteger(fn, actual, expected) ==
  \/ fn \in {FN_EQ, FN_IN} /\ actual = expected
  \/ fn \in {FN_NE, FN_EX} /\ actual # expected
  \/ fn = FN_GT /\ actual > expected
  \/ fn = FN_GE /\ actual >= expected
  \/ fn = FN_LT /\ actual < expected
  \/ fn = FN_LE /\ actual <= expected

\* Condition.CompareBoolean / CompareString
CompareString(fn, actual, expected) ==
  \/ fn \in {FN_EQ, FN_IN} /\ actual = expected
  \/ fn \in {FN_NE, FN_EX} /\ actual # expected

\* Condition.CompareUUID: the row value in its JSON or typed form
CompareUUID(fn, actual, expected) ==
  LET a == UnmarshalUUID(actual)
  IN \/ fn \in {FN_EQ, FN_IN} /\ a.GoUUID = expected.GoUUID
     \/ fn \in {FN_NE, FN_EX} /\ a.GoUUID # expected.GoUUID

\* Condition.CompareSet
CompareSet(fn, actual, expected) ==
  \/ fn \in {FN_EQ, FN_IN} /\ isEqualSet(actual, expected)
  \/ fn \in {FN_NE, FN_EX} /\ ~isEqualSet(actual, expected)

\* Condition.CompareMap
CompareMap(fn, actual, expected) ==
  \/ fn \in {FN_EQ, FN_IN} /\ isEqualMap(actual, expected)
  \/ fn \in {FN_NE, FN_EX} /\ ~isEqualMap(actual, expected)

\* a comparison that takes a row without the column as not matching
CompareSkipsAbsent(table, c, row) ==
  IF c.Column = COL_VERSION
  THEN [err |-> E_CONSTRAINT_VIOLATION, ok |-> FALSE]
  ELSE IF c.Column \notin DOMAIN row
       THEN [err |-> OK, ok |-> FALSE]
       ELSE LET type == ColumnSchema(table, c.Column).Type
                actual == row[c.Column]
            IN CASE type = "integer" ->
                      [err |-> OK, ok |-> CompareInteger(c.Function, actual, c.Value)]
                 [] type = "string" ->
                      [err |-> OK, ok |-> CompareString(c.Function, actual, c.Value)]
                 [] type = "uuid" ->
                      [err |-> OK, ok |-> CompareUUID(c.Function, actual, c.Value)]
                 [] type = "set" ->
                      [err |-> OK, ok |-> CompareSet(c.Function, actual, c.Value)]
                 [] type = "map" ->
                      [err |-> OK, ok |-> CompareMap(c.Function, actual, c.Value)]
                 [] OTHER -> [err |-> E_CONSTRAINT_VIOLATION, ok |-> FALSE]

\* Condition.Compare: [err, ok]; a row without the column fails the type
\* assertion of every Compare function
Compare(table, c, row) ==
  IF c.Column = COL_VERSION
  THEN [err |-> E_CONSTRAINT_VIOLATION, ok |-> FALSE]
  ELSE IF c.Column \notin DOMAIN row
       THEN [err |-> E_CONSTRAINT_VIOLATION, ok |-> FALSE]
       ELSE LET type == ColumnSchema(table, c.Column).Type
                actual == row[c.Column]
            IN CASE type = "integer" ->
                      [err |-> OK, ok |-> CompareInteger(c.Function, actual, c.Value)]
                 [] type = "string" ->
                      [err |-> OK, ok |-> CompareString(c.Function, actual, c.Value)]
                 [] type = "uuid" ->
                      [err |-> OK, ok |-> CompareUUID(c.Function, actual, c.Value)]
                 [] type = "set" ->
                      [err |-> OK, ok |-> CompareSet(c.Function, actual, c.Value)]
                 [] type = "map" ->
                      [err |-> OK, ok |-> CompareMap(c.Function, actual, c.Value)]
                 [] OTHER -> [err |-> E_CONSTRAINT_VIOLATION, ok |-> FALSE]

\* the error of a failed libovsdb uuid validation
E_UUID_FORMAT == "uuid validation failed"

\* getUUIDIfExists: [err, uuid]
getUUIDIfExists(table, mapUUID, cond) ==
  Let(NewCondition(table, mapUUID, cond), LAMBDA nc :
    IF nc.err # OK THEN [err |-> nc.err, uuid |-> ""]
    ELSE IF nc.val.Column # COL_UUID THEN [err |-> OK, uuid |-> ""]
    ELSE IF nc.val.Function \notin {FN_EQ, FN_IN} THEN [err |-> OK, uuid |-> ""]
    ELSE IF ~ValidateUUID(nc.val.Value.GoUUID) THEN [err |-> E_UUID_FORMAT, uuid |-> ""]
    ELSE [err |-> OK, uuid |-> nc.val.Value.GoUUID])

RECURSIVE WhereUUIDFrom(_, _, _, _)
WhereUUIDFrom(table, mapUUID, where, i) ==
  IF i > Len(where) THEN [err |-> OK, uuid |-> ""]
  ELSE Let(getUUIDIfExists(table, mapUUID, where[i]), LAMBDA r :
         IF r.err # OK \/ r.uuid # "" THEN r
         ELSE WhereUUIDFrom(table, mapUUID, where, i + 1))

\* doesWhereContainCondTypeUUID: the UUID of the first `_uuid ==/includes`
\* conjunct, "" when there is none; ovsOp.Where = nil gives ""
doesWhereContainCondTypeUUID(table, mapUUID, ovsOp) ==
  IF "Where" \notin DOMAIN ovsOp THEN [err |-> OK, uuid |-> ""]
  ELSE WhereUUIDFrom(table, mapUUID, ovsOp.Where, 1)

\* isRowSelectedByCond
isRowSelectedByCond(table, mapUUID, row, cond) ==
  Let(NewCondition(table, mapUUID, cond), LAMBDA nc :
    IF nc.err # OK THEN [err |-> nc.err, ok |-> FALSE]
    ELSE Compare(table, nc.val, row))

RECURSIVE WhereFrom(_, _, _, _, _)
WhereFrom(table, mapUUID, row, where, i) ==
  IF i > Len(where) THEN [err |-> OK, ok |-> TRUE]
  ELSE Let(isRowSelectedByCond(table, mapUUID, row, where[i]), LAMBDA r :
         IF r.err # OK \/ ~r.ok THEN r
         ELSE WhereFrom(table, mapUUID, row, where, i + 1))

\* a where clause of which only the first condition is looked at
isRowSelectedByWhereFirst(table, mapUUID, row, ovsOp) ==
  IF "Where" \notin DOMAIN ovsOp THEN [err |-> OK, ok |-> TRUE]
  ELSE WhereFrom(table, mapUUID, row, SubSeq(ovsOp.Where, 1, 1), 1)

\* isRowSelectedByWhere: the conjunction, left to right, stopping at the first
\* error or the first conjunct that does not match
isRowSelectedByWhere(table, mapUUID, row, ovsOp) ==
  IF "Where" \notin DOMAIN ovsOp THEN [err |-> OK, ok |-> TRUE]
  ELSE WhereFrom(table, mapUUID, row, ovsOp.Where, 1)

\* reduceRowByColumns: a column the row lacks is given the nil value
NilValue == "nil"

\* reduceRowByColumns handing back the whole row
reduceRowByColumnsWhole(row, ovsOp) == row

reduceRowByColumns(row, ovsOp) ==
  IF "Columns" \notin DOMAIN ovsOp THEN row
  ELSE [c \in Range(ovsOp.Columns) |-> IF c \in DOMAIN row THEN row[c] ELSE NilValue]

\* ---------------------------------------------------- mutation algebra
\* a Go run-time panic, carried as an error that nobody handles
PANIC == "panic"

Abs(x) == IF x < 0 THEN -x ELSE x

\* Go's integer / and %: the quotient truncated toward zero
GoDiv(a, b) ==
  IF (a < 0) = (b < 0) THEN Abs(a) \div Abs(b) ELSE -(Abs(a) \div Abs(b))

GoMod(a, b) == a - b * GoDiv(a, b)

\* ColumnSchema.Mutable is nil (mutable) or points to a flag
IsImmutable(cs) == "Mutable" \in DOMAIN cs /\ ~cs.Mutable

\* NewMutation: a mutation [Column, Mutator, Value] compiled against the schema
NewMutation(table, mapUUID, mutation) ==
  IF ~LookupColumn(table, mutation.Column)
  THEN [err |-> E_CONSTRAINT_VIOLATION, val |-> mutation]
  ELSE Let(ColumnSchema(table, mutation.Column), LAMBDA cs :
       Let(Resolv(mapUUID, cs, ColumnUnmarshal(cs, mutation.Value)), LAMBDA res :
         IF res.err # OK
         THEN [err |-> E_CONSTRAINT_VIOLATION, val |-> mutation]
         ELSE IF ~ColumnValidate(cs, res.val)
              THEN [err |-> E_CONSTRAINT_VIOLATION, val |-> mutation]
              ELSE [err |-> OK, val |-> [mutation EXCEPT !.Value = res.val]]))

\* Mutation.MutateInteger with a zero divisor taken as no change and no error
MutateIntegerNoError(m, row) ==
  IF m.Column \notin DOMAIN row THEN [err |-> PANIC, val |-> row]
  ELSE LET original == row[m.Column]
           value == m.Value
       IN CASE m.Mutator = MT_SUM ->
                 [err |-> OK, val |-> [row EXCEPT ![m.Column] = original + value]]
            [] m.Mutator = MT_DIFFERENCE ->
                 [err |-> OK, val |-> [row EXCEPT ![m.Column] = original - value]]
            [] m.Mutator = MT_PRODUCT ->
                 [err |-> OK, val |-> [row EXCEPT ![m.Column] = original * value]]
            [] m.Mutator = MT_QUOTIENT ->
                 IF value # 0
                 THEN [err |-> OK, val |-> [row EXCEPT ![m.Column] = GoDiv(original, value)]]
                 ELSE [err |-> OK, val |-> row]
            [] m.Mutator = MT_REMAINDER ->
                 IF value # 0
                 THEN [err |-> OK, val |-> [row EXCEPT ![m.Column] = GoMod(original, value)]]
                 ELSE [err |-> OK, val |-> row]
            [] OTHER -> [err |-> E_CONSTRAINT_VIOLATION, val |-> row]

\* Mutation.MutateInteger: the column is assigned also when the divisor is 0
MutateInteger(m, row) ==
  IF m.Column \notin DOMAIN row THEN [err |-> PANIC, val |-> row]
  ELSE LET original == row[m.Column]
           value == m.Value
       IN CASE m.Mutator = MT_SUM ->
                 [err |-> OK, val |-> [row EXCEPT ![m.Column] = original + value]]
            [] m.Mutator = MT_DIFFERENCE ->
                 [err |-> OK, val |-> [row EXCEPT ![m.Column] = original - value]]
            [] m.Mutator = MT_PRODUCT ->
                 [err |-> OK, val |-> [row EXCEPT ![m.Column] = original * value]]
            [] m.Mutator = MT_QUOTIENT ->
                 IF value # 0
                 THEN [err |-> OK, val |-> [row EXCEPT ![m.Column] = GoDiv(original, value)]]
                 ELSE [err |-> E_DOMAIN_ERROR, val |-> row]
            [] m.Mutator = MT_REMAINDER ->
                 IF value # 0
                 THEN [err |-> OK, val |-> [row EXCEPT ![m.Column] = GoMod(original, value)]]
                 ELSE [err |-> E_DOMAIN_ERROR, val |-> row]
            [] OTHER -> [err |-> E_CONSTRAINT_VIOLATION, val |-> row]

\* inSet
inSet(set, a) == \E i \in DOMAIN set.GoSet : isEqualValue(a, set.GoSet[i])

\* insertToSet: the elements of toInsert that the original lacks, appended
insertToSet(original, toInsert) ==
  [GoSet |-> original.GoSet \o
             SelectIdx(toInsert.GoSet,
                       {i \in DOMAIN toInsert.GoSet : ~inSet(original, toInsert.GoSet[i])}, 1)]

\* deleteFromSet: the elements of the original that toDelete lacks
deleteFromSet(original, toDelete) ==
  [GoSet |-> SelectIdx(original.GoSet,
                       {i \in DOMAIN original.GoSet : ~inSet(toDelete, original.GoSet[i])}, 1)]

\* Mutation.MutateSet
MutateSet(m, row) ==
  IF m.Column \notin DOMAIN row THEN [err |-> PANIC, val |-> row]
  ELSE CASE m.Mutator = MT_INSERT ->
              [err |-> OK,
               val |-> [row EXCEPT ![m.Column] = insertToSet(row[m.Column], m.Value)]]
         [] m.Mutator = MT_DELETE ->
              [err |-> OK,
               val |-> [row EXCEPT ![m.Column] = deleteFromSet(row[m.Column], m.Value)]]
         [] OTHER -> [err |-> E_CONSTRAINT_VIOLATION, val |-> row]

\* insertToMap: the keys of toInsert overwrite
insertToMap(original, toInsert) ==
  [GoMap |-> [k \in DOMAIN original.GoMap \cup DOMAIN toInsert.GoMap |->
                IF k \in DOMAIN toInsert.GoMap THEN toInsert.GoMap[k]
                ELSE original.GoMap[k]]]

\* deleteFromMap with a map: the entries of the original equal to one of toDelete
deleteFromMap(original, toDelete) ==
  [GoMap |-> [k \in {x \in DOMAIN original.GoMap :
                       ~(x \in DOMAIN toDelete.GoMap
                         /\ original.GoMap[x] = toDelete.GoMap[x])} |->
                original.GoMap[k]]]

\* Mutation.MutateMap
MutateMap(m, row) ==
  IF m.Column \notin DOMAIN row THEN [err |-> PANIC, val |-> row]
  ELSE CASE m.Mutator = MT_INSERT ->
              [err |-> OK,
               val |-> [row EXCEPT ![m.Column] = insertToMap(row[m.Column], m.Value)]]
         [] m.Mutator = MT_DELETE ->
              [err |-> OK,
               val |-> [row EXCEPT ![m.Column] = deleteFromMap(row[m.Column], m.Value)]]
         [] OTHER -> [err |-> E_CONSTRAINT_VIOLATION, val |-> row]

\* Mutation.MutateReal: +=, -=, *= and /= on fractions; every other mutator
\* (%= included) is refused
MutateReal(m, row) ==
  IF m.Column \notin DOMAIN row THEN [err |-> PANIC, val |-> row]
  ELSE LET a == row[m.Column]
           b == m.Value
       IN CASE m.Mutator = MT_SUM ->
                 [err |-> OK,
                  val |-> [row EXCEPT ![m.Column] =
                             Real(a.num * b.den + b.num * a.den, a.den * b.den)]]
            [] m.Mutator = MT_DIFFERENCE ->
                 [err |-> OK,
                  val |-> [row EXCEPT ![m.Column] =
                             Real(a.num * b.den - b.num * a.den, a.den * b.den)]]
            [] m.Mutator = MT_PRODUCT ->
                 [err |-> OK,
                  val |-> [row EXCEPT ![m.Column] = Real(a.num * b.num, a.den * b.den)]]
            [] m.Mutator = MT_QUOTIENT ->
                 IF b.num # 0
                 THEN [err |-> OK,
                       val |-> [row EXCEPT ![m.Column] =
                                  Real(IF b.num < 0 THEN -(a.num * b.den) ELSE a.num * b.den,
                                       a.den * Abs(b.num))]]
                 ELSE [err |-> E_DOMAIN_ERROR, val |-> row]
            [] OTHER -> [err |-> E_CONSTRAINT_VIOLATION, val |-> row]

\* Mutation.Mutate
Mutate(table, m, row) ==
  IF m.Column \in {COL_UUID, COL_VERSION}
  THEN [err |-> E_CONSTRAINT_VIOLATION, val |-> row]
  ELSE Let(ColumnSchema(table, m.Column), LAMBDA cs :
         IF IsImmutable(cs)
         THEN [err |-> E_CONSTRAINT_VIOLATION, val |-> row]
         ELSE CASE cs.Type = "integer" -> MutateInteger(m, row)
                [] cs.Type = "real" -> MutateReal(m, row)
                [] cs.Type = "set" -> MutateSet(m, row)
                [] cs.Type = "map" -> MutateMap(m, row)
                [] OTHER -> [err |-> E_CONSTRAINT_VIOLATION, val |-> row])

RECURSIVE MutateFrom(_, _, _, _, _)
MutateFrom(table, mapUUID, mutated, mutations, i) ==
  IF i > Len(mutations) THEN [err |-> OK, val |-> mutated]
  ELSE Let(NewMutation(table, mapUUID, mutations[i]), LAMBDA nm :
         IF nm.err # OK THEN [err |-> nm.err, val |-> mutated]
         ELSE Let(Mutate(table, nm.val, mutated), LAMBDA r :
                IF r.err # OK THEN r
                ELSE MutateFrom(table, mapUUID, r.val, mutations, i + 1)))

\* RowMutate: the mutations applied in order to a copy, which replaces the
\* row only when every mutation succeeded
RowMutate(table, mapUUID, original, mutations) ==
  Let(MutateFrom(table, mapUUID, original, mutations, 1), LAMBDA r :
    IF r.err # OK THEN [err |-> r.err, val |-> original] ELSE r)

\* RowUpdate without the check of _uuid and _version
RowUpdateAnyColumn(table, original, update) ==
  LET bad == {c \in DOMAIN update :
                \/ ~(c \in {COL_UUID, COL_VERSION} \/ LookupColumn(table, c))
                \/ IsImmutable(ColumnSchema(table, c))}
  IN IF bad # {}
     THEN [err |-> E_CONSTRAINT_VIOLATION, val |-> original]
     ELSE [err |-> OK,
           val |-> [c \in DOMAIN original \cup DOMAIN update |->
                      IF c \in DOMAIN update THEN update[c] ELSE original[c]]]

\* RowUpdate: every column of the update overwrites; a rejected column ends
\* the transaction, so the columns written before it are not kept here
RowUpdate(table, original, update) ==
  LET bad == {c \in DOMAIN update :
                \/ ~LookupColumn(table, c)
                \/ c \in {COL_UUID, COL_VERSION}
                \/ IsImmutable(ColumnSchema(table, c))}
  IN IF bad # {}
     THEN [err |-> E_CONSTRAINT_VIOLATION, val |-> original]
     ELSE [err |-> OK,
           val |-> [c \in DOMAIN original \cup DOMAIN update |->
                      IF c \in DOMAIN update THEN update[c] ELSE original[c]]]

\* ------------------------------------------------ etcd transaction buffer
\* an Etcd after Clear: no operations, no events, nil-event counter 0
EtcdClear == [Then |-> <<>>, Events |-> <<>>, EventsNilCount |-> 0]

\* Etcd.Assert: does the assertion hold (it panics when it does not)
EtcdAssertOK(etcd) == Len(etcd.Then) = Len(etcd.Events) + etcd.EventsNilCount

OpGet(key) == [op |-> "get", key |-> key]

OpPut(key, val) == [op |-> "put", key |-> key, val |-> val]

OpDelete(key) == [op |-> "delete", key |-> key]

etcdOpKey(op) == op.key

\* the nil *clientv3.Event
NilEvent == [Type |-> "nil"]

etcdEventCreate(key, val) ==
  [Type |-> "PUT",
   Kv |-> [Key |-> key, Value |-> val, CreateRevision |-> 1, ModRevision |-> 1]]

etcdEventModify(key, val, prevVal) ==
  [Type |-> "PUT",
   Kv |-> [Key |-> key, Value |-> val, CreateRevision |-> 1, ModRevision |-> 2],
   PrevKv |-> [Key |-> key, Value |-> prevVal, CreateRevision |-> 1, ModRevision |-> 1]]

etcdEventDelete(key, prevVal) ==
  [Type |-> "DELETE",
   PrevKv |-> [Key |-> key, Value |-> prevVal, CreateRevision |-> 1, ModRevision |-> 1]]

etcdEventKey(ev) == IF "Kv" \in DOMAIN ev THEN ev.Kv.Key ELSE ev.PrevKv.Key

etcdEventIsCreate(ev) ==
  ev.Type = "PUT" /\ ev.Kv.CreateRevision = ev.Kv.ModRevision

etcdEventIsModify(ev) ==
  ev.Type = "PUT" /\ ev.Kv.CreateRevision < ev.Kv.ModRevision

etcdEventCreateFromModify(ev) == etcdEventCreate(ev.Kv.Key, ev.Kv.Value)

\* etcdGetData
etcdGetData(etcd, key) == [etcd EXCEPT !.Then = Append(@, OpGet(key))]

RECURSIVE DupThenLoop(_, _, _, _)
\* the second loop of etcdRemoveDupThen: the indices set to nil, given the last
\* index seen for every key
DupThenLoop(then, curr, prevKeyIndex, nils) ==
  IF curr > Len(then) THEN nils
  ELSE LET key == etcdOpKey(then[curr])
           seen == key \in DOMAIN prevKeyIndex
           index == [k \in DOMAIN prevKeyIndex \cup {key} |->
                       IF k = key THEN curr ELSE prevKeyIndex[k]]
       IN DupThenLoop(then, curr + 1, index,
                      IF seen THEN nils \cup {prevKeyIndex[key]} ELSE nils)

\* etcdRemoveDupThen keeping the first operation of every key instead of the
\* last (a variant the write-dedup property must tell apart)
etcdRemoveDupThenFirst(etcd) ==
  [etcd EXCEPT !.Then =
     SelectIdx(etcd.Then,
               {i \in DOMAIN etcd.Then :
                  \A j \in 1..(i - 1) : etcdOpKey(etcd.Then[j]) # etcdOpKey(etcd.Then[i])},
               1)]

\* Transaction.etcdRemoveDupThen
etcdRemoveDupThen(etcd) ==
  LET nils == DupThenLoop(etcd.Then, 1, EmptyMap, {})
  IN [etcd EXCEPT !.Then = SelectIdx(etcd.Then, DOMAIN etcd.Then \ nils, 1)]

\* etcdRemoveDupEvents, lines 196-203: what is left at index i of newEvents
\* when an earlier event has the key of curr: the fused create is stored at
\* index i, and then index i is set to nil
DupEventSlot(curr, prev) ==
  LET fused == IF etcdEventIsModify(curr) /\ etcdEventIsCreate(prev)
               THEN etcdEventCreateFromModify(curr) ELSE curr
  IN NilEvent

RECURSIVE DupEventsLoop(_, _, _, _)
\* the second loop of etcdRemoveDupEvents over newEvents
DupEventsLoop(prevEvents, newEvents, i, prevKeyIndex) ==
  IF i > Len(newEvents) THEN newEvents
  ELSE IF newEvents[i] = NilEvent
  THEN DupEventsLoop(prevEvents, newEvents, i + 1, prevKeyIndex)
  ELSE Let(etcdEventKey(newEvents[i]), LAMBDA key :
         DupEventsLoop(prevEvents,
                       [newEvents EXCEPT ![i] =
                          IF key \in DOMAIN prevKeyIndex
                          THEN DupEventSlot(@, prevEvents[prevKeyIndex[key]])
                          ELSE @],
                       i + 1,
                       [k \in DOMAIN prevKeyIndex \cup {key} |->
                          IF k = key THEN i ELSE prevKeyIndex[k]]))

\* Transaction.etcdRemoveDupEvents: the nil events are counted, then the
\* events are compacted by key and the nil slots dropped
etcdRemoveDupEvents(etcd) ==
  Let(DupEventsLoop(etcd.Events, etcd.Events, 1, EmptyMap), LAMBDA newEvents :
    [etcd EXCEPT
       !.EventsNilCount =
          @ + Cardinality({i \in DOMAIN etcd.Events : etcd.Events[i] = NilEvent}),
       !.Events = SelectIdx(newEvents,
                            {i \in DOMAIN newEvents : newEvents[i] # NilEvent}, 1)])

\* Transaction.etcdRemoveDup, before its Assert
etcdRemoveDup(etcd) == etcdRemoveDupEvents(etcdRemoveDupThen(etcd))

\* ------------------------------------------------------------- row cache
\* The state a handler works on: st = [t, db, cache, mapUUID, etcd, gen], the
\* transaction's number, database name, cache (key -> row), named-uuid map,
\* etcd buffer and count of UUIDs generated.  A handler returns
\* [err, st, res]: its error, the state it leaves and the operation result.
Ret(err, st, res) == [err |-> err, st |-> st, res |-> res]

SetField(r, f, v) == [g \in DOMAIN r \cup {f} |-> IF g = f THEN v ELSE r[g]]

Has(ovsOp, field) == field \in DOMAIN ovsOp

\* Cache.Table: the UUIDs of the cached rows of a table
CacheTable(cache, db, table) ==
  {k.UUID : k \in {x \in DOMAIN cache : x.DBName = db /\ x.TableName = table}}

\* assignment through Cache.Row(key)
\* a cache that drops the row it is handed
CachePutDrops(cache, key, row) == cache

CachePut(cache, key, row) == SetField(cache, key, row)

\* Cache.Unmarshal: does some cached row fail the schema unmarshal
CacheUnmarshalFails(cache) ==
  \E k \in DOMAIN cache :
    \E c \in DOMAIN cache[k] :
      c \notin {COL_UUID, COL_VERSION} /\ ~LookupColumn(k.TableName, c)

\* Cache.Unmarshal: every cached row re-typed
CacheUnmarshal(cache) == [k \in DOMAIN cache |-> RowUnmarshal(k.TableName, cache[k])]

\* a validation that accepts every cache
CacheValidateAccepts(cache) == TRUE

\* Cache.Validate: nil error iff every cached row satisfies its table schema
CacheValidate(cache) == \A k \in DOMAIN cache : RowValidate(k.TableName, cache[k])

\* setRowUUID
\* setRowUUID writing the nil UUID instead of the row's
setRowUUIDNil(row, uuid) == SetField(row, COL_UUID, [GoUUID |-> ""])

setRowUUID(row, uuid) == SetField(row, COL_UUID, [GoUUID |-> uuid])

\* etcdCreateRow: [err, st]
etcdCreateRow(st, key, row) ==
  Let(makeValue(key.TableName, row), LAMBDA val :
  Let([st.etcd EXCEPT !.Then = Append(@, OpPut(key, val)),
                      !.Events = Append(@, etcdEventCreate(key, val))], LAMBDA etcd :
    [err |-> IF EtcdAssertOK(etcd) THEN OK ELSE PANIC,
     st |-> [st EXCEPT !.etcd = etcd]]))

\* etcdModifyRow: the previous value is read from the cache row of the key
etcdModifyRow(st, key, row) ==
  Let(makeValue(key.TableName, row), LAMBDA val :
  Let(makeValue(key.TableName, st.cache[key]), LAMBDA prevVal :
  Let([st.etcd EXCEPT !.Then = Append(@, OpPut(key, val)),
                      !.Events = Append(@, etcdEventModify(key, val, prevVal))],
      LAMBDA etcd :
    [err |-> IF EtcdAssertOK(etcd) THEN OK ELSE PANIC,
     st |-> [st EXCEPT !.etcd = etcd]])))

\* etcdDeleteRow
etcdDeleteRow(st, key) ==
  Let(makeValue(key.TableName, st.cache[key]), LAMBDA prevVal :
  Let([st.etcd EXCEPT !.Then = Append(@, OpDelete(key)),
                      !.Events = Append(@, etcdEventDelete(key, prevVal))],
      LAMBDA etcd :
    [err |-> IF EtcdAssertOK(etcd) THEN OK ELSE PANIC,
     st |-> [st EXCEPT !.etcd = etcd]]))

\* ---------------------------------------------------------- pre handlers
\* etcdGetByWhere: a nil Table is dereferenced
etcdGetByWhere(st, ovsOp, res) ==
  IF ~Has(ovsOp, "Table") THEN Ret(PANIC, st, res)
  ELSE IF ~LookupTable(ovsOp.Table) THEN Ret(E_INTERNAL_ERROR, st, res)
  ELSE Let(doesWhereContainCondTypeUUID(ovsOp.Table, st.mapUUID, ovsOp), LAMBDA w :
         IF w.err # OK THEN Ret(w.err, st, res)
         ELSE Ret(OK,
                  [st EXCEPT !.etcd =
                     etcdGetData(@, NewDataKey(st.db, ovsOp.Table, w.uuid))],
                  res))

\* preInsert without the lookup of the name in the map: the name is bound
\* again (a variant the named-UUID uniqueness property must tell apart)
preInsertRebinds(st, ovsOp, res) ==
  IF ~Has(ovsOp, "UUIDName") THEN Ret(OK, st, res)
  ELSE IF ~Has(ovsOp, "Table") THEN Ret(PANIC, st, res)
  ELSE Ret(OK,
           [st EXCEPT
              !.gen = IF Has(ovsOp, "UUID") THEN @ ELSE @ + 1,
              !.mapUUID = MapUUIDSet(@, ovsOp.UUIDName,
                                     IF Has(ovsOp, "UUID") THEN ovsOp.UUID.GoUUID
                                     ELSE GenerateUUID(st.t, st.gen + 1)),
              !.etcd = etcdGetData(@, NewTableKey(st.db, ovsOp.Table))],
           res)

preInsert(st, ovsOp, res) ==
  IF ~Has(ovsOp, "UUIDName") THEN Ret(OK, st, res)
  ELSE IF ovsOp.UUIDName \in DOMAIN st.mapUUID THEN Ret(E_DUP_UUIDNAME, st, res)
  ELSE IF ~Has(ovsOp, "Table") THEN Ret(PANIC, st, res)
  ELSE Ret(OK,
           [st EXCEPT
              !.gen = IF Has(ovsOp, "UUID") THEN @ ELSE @ + 1,
              !.mapUUID = MapUUIDSet(@, ovsOp.UUIDName,
                                     IF Has(ovsOp, "UUID") THEN ovsOp.UUID.GoUUID
                                     ELSE GenerateUUID(st.t, st.gen + 1)),
              !.etcd = etcdGetData(@, NewTableKey(st.db, ovsOp.Table))],
           res)

preSelect(st, ovsOp, res) == etcdGetByWhere(st, ovsOp, res)

preUpdate(st, ovsOp, res) == etcdGetByWhere(st, ovsOp, res)

preMutate(st, ovsOp, res) == etcdGetByWhere(st, ovsOp, res)

preDelete(st, ovsOp, res) == etcdGetByWhere(st, ovsOp, res)

preWait(st, ovsOp, res) ==
  IF ~Has(ovsOp, "Timeout") THEN Ret(E_CONSTRAINT_VIOLATION, st, res)
  ELSE etcdGetByWhere(st, ovsOp, res)

\* preCommit without the rejection of durable == true (a variant the durable
\* commit property must tell apart)
preCommitAccepts(st, ovsOp, res) ==
  IF ~Has(ovsOp, "Durable") THEN Ret(E_CONSTRAINT_VIOLATION, st, res)
  ELSE Ret(OK, st, res)

preCommit(st, ovsOp, res) ==
  IF ~Has(ovsOp, "Durable") THEN Ret(E_CONSTRAINT_VIOLATION, st, res)
  ELSE IF ovsOp.Durable THEN Ret(E_NOT_SUPPORTED, st, res)
  ELSE Ret(OK, st, res)

\* preAbort returning nil (a variant the abort property must tell apart)
preAbortNil(st, ovsOp, res) == Ret(OK, st, res)

preAbort(st, ovsOp, res) == Ret(E_ABORTED, st, res)

preComment(st, ovsOp, res) == Ret(OK, st, res)

preAssert(st, ovsOp, res) == Ret(OK, st, res)

\* ----------------------------------------------------------- do handlers
doInsert(st, ovsOp, res) ==
  IF ~Has(ovsOp, "Table") THEN Ret(PANIC, st, res)
  ELSE IF ~LookupTable(ovsOp.Table) THEN Ret(E_INTERNAL_ERROR, st, res)
  ELSE Let(IF Has(ovsOp, "UUIDName") THEN MapUUIDGet(st.mapUUID, ovsOp.UUIDName)
           ELSE IF Has(ovsOp, "UUID") THEN [err |-> OK, val |-> ovsOp.UUID.GoUUID]
           ELSE [err |-> OK, val |-> GenerateUUID(st.t, st.gen + 1)], LAMBDA got :
       Let([st EXCEPT !.gen = IF Has(ovsOp, "UUIDName") \/ Has(ovsOp, "UUID")
                              THEN @ ELSE @ + 1], LAMBDA st1 :
         IF got.err # OK THEN Ret(got.err, st, res)
         ELSE IF /\ Has(ovsOp, "UUID")
                 /\ ovsOp.UUID.GoUUID \in CacheTable(st.cache, st.db, ovsOp.Table)
         THEN Ret(E_DUP_UUID, st1, res)
         ELSE IF ~Has(ovsOp, "Row") THEN Ret(PANIC, st1, SetField(res, "UUID", got.val))
         ELSE Let(NewDataKey(st.db, ovsOp.Table, got.val), LAMBDA key :
              \* the cache row and ovsOp.Row are one map from here on
              Let(RowPrepare(ovsOp.Table, st.mapUUID,
                             setRowUUID(RowDefault(ovsOp.Table, ovsOp.Row), got.val)),
                  LAMBDA prep :
              Let([st1 EXCEPT !.cache = CachePut(@, key, prep.val)], LAMBDA st2 :
                IF prep.err # OK
                THEN Ret(E_CONSTRAINT_VIOLATION, st2, SetField(res, "UUID", got.val))
                ELSE Let(etcdCreateRow(st2, key, prep.val), LAMBDA c :
                       Ret(c.err, c.st, SetField(res, "UUID", got.val))))))))

RECURSIVE SelectLoop(_, _, _, _, _)
SelectLoop(st, ovsOp, res, ord, i) ==
  IF i > Len(ord) THEN Ret(OK, st, res)
  ELSE Let(st.cache[NewDataKey(st.db, ovsOp.Table, ord[i])], LAMBDA row :
       Let(isRowSelectedByWhere(ovsOp.Table, st.mapUUID, row, ovsOp), LAMBDA sel :
         IF sel.err # OK THEN Ret(sel.err, st, res)
         ELSE SelectLoop(st, ovsOp,
                         IF sel.ok
                         THEN [res EXCEPT !.Rows = Append(@, reduceRowByColumns(row, ovsOp))]
                         ELSE res,
                         ord, i + 1)))

\* doSelect; ord is the order in which the table's rows are iterated
doSelect(st, ovsOp, res, ord) ==
  IF ~Has(ovsOp, "Table") THEN Ret(PANIC, st, SetField(res, "Rows", <<>>))
  ELSE IF ~LookupTable(ovsOp.Table)
  THEN Ret(E_INTERNAL_ERROR, st, SetField(res, "Rows", <<>>))
  ELSE SelectLoop(st, ovsOp, SetField(res, "Rows", <<>>), ord, 1)

\* the body of doUpdate's loop for a row the where clause selects: [err, st]
UpdateRow(st, ovsOp, key, row) ==
  IF ~Has(ovsOp, "Row") THEN [err |-> PANIC, st |-> st]
  ELSE Let(RowPrepare(ovsOp.Table, st.mapUUID, ovsOp.Row), LAMBDA prep :
         IF prep.err # OK THEN [err |-> prep.err, st |-> st]
         ELSE Let(RowUpdate(ovsOp.Table, row, prep.val), LAMBDA upd :
                IF upd.err # OK THEN [err |-> upd.err, st |-> st]
                ELSE etcdModifyRow([st EXCEPT !.cache = CachePut(@, key, upd.val)],
                                   key, upd.val)))

RECURSIVE UpdateLoop(_, _, _, _, _)
UpdateLoop(st, ovsOp, res, ord, i) ==
  IF i > Len(ord) THEN Ret(OK, st, res)
  ELSE Let(NewDataKey(st.db, ovsOp.Table, ord[i]), LAMBDA key :
       Let(isRowSelectedByWhere(ovsOp.Table, st.mapUUID, st.cache[key], ovsOp),
           LAMBDA sel :
         IF sel.err # OK THEN Ret(sel.err, st, res)
         ELSE IF ~sel.ok THEN UpdateLoop(st, ovsOp, res, ord, i + 1)
         ELSE Let(UpdateRow(st, ovsOp, key, st.cache[key]), LAMBDA m :
                IF m.err # OK THEN Ret(m.err, m.st, res)
                ELSE UpdateLoop(m.st, ovsOp, [res EXCEPT !.Count = @ + 1], ord, i + 1))))

doUpdate(st, ovsOp, res, ord) ==
  IF ~Has(ovsOp, "Table") THEN Ret(PANIC, st, SetField(res, "Count", 0))
  ELSE IF ~LookupTable(ovsOp.Table)
  THEN Ret(E_INTERNAL_ERROR, st, SetField(res, "Count", 0))
  ELSE UpdateLoop(st, ovsOp, SetField(res, "Count", 0), ord, 1)

\* the body of doMutate's loop for a row the where clause selects: [err, st]
MutateRow(st, ovsOp, key, row) ==
  IF ~Has(ovsOp, "Mutations") THEN [err |-> PANIC, st |-> st]
  ELSE Let(RowMutate(ovsOp.Table, st.mapUUID, row, ovsOp.Mutations), LAMBDA mut :
         IF mut.err # OK THEN [err |-> mut.err, st |-> st]
         ELSE etcdModifyRow([st EXCEPT !.cache = CachePut(@, key, mut.val)],
                            key, mut.val))

RECURSIVE MutateLoop(_, _, _, _, _)
MutateLoop(st, ovsOp, res, ord, i) ==
  IF i > Len(ord) THEN Ret(OK, st, res)
  ELSE Let(NewDataKey(st.db, ovsOp.Table, ord[i]), LAMBDA key :
       Let(isRowSelectedByWhere(ovsOp.Table, st.mapUUID, st.cache[key], ovsOp),
           LAMBDA sel :
         IF sel.err # OK THEN Ret(sel.err, st, res)
         ELSE IF ~sel.ok THEN MutateLoop(st, ovsOp, res, ord, i + 1)
         ELSE Let(MutateRow(st, ovsOp, key, st.cache[key]), LAMBDA m :
                IF m.err # OK THEN Ret(m.err, m.st, res)
                ELSE MutateLoop(m.st, ovsOp, [res EXCEPT !.Count = @ + 1], ord, i + 1))))

doMutate(st, ovsOp, res, ord) ==
  IF ~Has(ovsOp, "Table") THEN Ret(PANIC, st, SetField(res, "Count", 0))
  ELSE IF ~LookupTable(ovsOp.Table)
  THEN Ret(E_INTERNAL_ERROR, st, SetField(res, "Count", 0))
  ELSE MutateLoop(st, ovsOp, SetField(res, "Count", 0), ord, 1)

RECURSIVE DeleteLoop(_, _, _, _, _)
DeleteLoop(st, ovsOp, res, ord, i) ==
  IF i > Len(ord) THEN Ret(OK, st, res)
  ELSE Let(NewDataKey(st.db, ovsOp.Table, ord[i]), LAMBDA key :
       Let(isRowSelectedByWhere(ovsOp.Table, st.mapUUID, st.cache[key], ovsOp),
           LAMBDA sel :
         IF sel.err # OK THEN Ret(sel.err, st, res)
         ELSE IF ~sel.ok THEN DeleteLoop(st, ovsOp, res, ord, i + 1)
         ELSE Let(etcdDeleteRow(st, key), LAMBDA d :
                IF d.err # OK THEN Ret(d.err, d.st, res)
                ELSE DeleteLoop(d.st, ovsOp, [res EXCEPT !.Count = @ + 1], ord, i + 1))))

\* doDelete leaving its loop after the first row
doDeleteFirst(st, ovsOp, res, ord) ==
  IF ~Has(ovsOp, "Table") THEN Ret(PANIC, st, SetField(res, "Count", 0))
  ELSE IF ~LookupTable(ovsOp.Table)
  THEN Ret(E_INTERNAL_ERROR, st, SetField(res, "Count", 0))
  ELSE DeleteLoop(st, ovsOp, SetField(res, "Count", 0),
                  IF ord = <<>> THEN ord ELSE <<ord[1]>>, 1)

\* doDelete: the delete is queued; the cache keeps the row
doDelete(st, ovsOp, res, ord) ==
  IF ~Has(ovsOp, "Table") THEN Ret(PANIC, st, SetField(res, "Count", 0))
  ELSE IF ~LookupTable(ovsOp.Table)
  THEN Ret(E_INTERNAL_ERROR, st, SetField(res, "Count", 0))
  ELSE DeleteLoop(st, ovsOp, SetField(res, "Count", 0), ord, 1)

\* isEqualRow: [err, ok]; a column the actual row lacks compares as nil
isEqualRow(table, expectedRow, actualRow) ==
  IF \E c \in DOMAIN expectedRow : ~LookupColumn(table, c)
  THEN [err |-> E_CONSTRAINT_VIOLATION, ok |-> FALSE]
  ELSE IF \E c \in DOMAIN expectedRow :
            c \notin DOMAIN actualRow /\ Schema[table][c].Type \in {"set", "map"}
  THEN [err |-> PANIC, ok |-> FALSE]
  ELSE [err |-> OK,
        ok |-> \A c \in DOMAIN expectedRow :
                 /\ c \in DOMAIN actualRow
                 /\ isEqualColumn(Schema[table][c], expectedRow[c], actualRow[c])]

RECURSIVE WaitRows(_, _, _, _, _)
\* the inner loop of doWait over ovsOp.Rows: "hit" when an expected row
\* equals the actual row, "miss" when none does, or an error
WaitRows(st, ovsOp, actual, rows, j) ==
  IF j > Len(rows) THEN [err |-> OK, hit |-> FALSE]
  ELSE Let(RowPrepare(ovsOp.Table, st.mapUUID, rows[j]), LAMBDA prep :
         IF prep.err # OK THEN [err |-> prep.err, hit |-> FALSE]
         ELSE Let(isEqualRow(ovsOp.Table, prep.val, actual), LAMBDA eq :
                IF eq.err # OK THEN [err |-> eq.err, hit |-> FALSE]
                ELSE IF eq.ok THEN [err |-> OK, hit |-> TRUE]
                ELSE WaitRows(st, ovsOp, actual, rows, j + 1)))

RECURSIVE WaitLoop(_, _, _, _, _, _)
WaitLoop(st, ovsOp, res, equal, ord, i) ==
  IF i > Len(ord) THEN Ret(IF equal THEN E_TIMEOUT ELSE OK, st, res)
  ELSE Let(st.cache[NewDataKey(st.db, ovsOp.Table, ord[i])], LAMBDA row :
       Let(isRowSelectedByWhere(ovsOp.Table, st.mapUUID, row, ovsOp), LAMBDA sel :
         IF sel.err # OK THEN Ret(sel.err, st, res)
         ELSE IF ~sel.ok THEN WaitLoop(st, ovsOp, res, equal, ord, i + 1)
         ELSE Let(WaitRows(st, ovsOp, reduceRowByColumns(row, ovsOp), ovsOp.Rows, 1),
                  LAMBDA w :
                IF w.err # OK THEN Ret(w.err, st, res)
                ELSE IF w.hit THEN Ret(IF equal THEN OK ELSE E_TIMEOUT, st, res)
                ELSE WaitLoop(st, ovsOp, res, equal, ord, i + 1))))

doWait(st, ovsOp, res, ord) ==
  IF ~Has(ovsOp, "Table") THEN Ret(E_CONSTRAINT_VIOLATION, st, res)
  ELSE IF ~Has(ovsOp, "Rows") THEN Ret(E_CONSTRAINT_VIOLATION, st, res)
  ELSE IF Len(ovsOp.Rows) = 0 THEN Ret(OK, st, res)
  ELSE IF ~Has(ovsOp, "Until") THEN Ret(E_CONSTRAINT_VIOLATION, st, res)
  ELSE IF ~LookupTable(ovsOp.Table) THEN Ret(E_INTERNAL_ERROR, st, res)
  ELSE IF ovsOp.Until \notin {FN_EQ, FN_NE} THEN Ret(E_CONSTRAINT_VIOLATION, st, res)
  ELSE WaitLoop(st, ovsOp, res, ovsOp.Until = FN_EQ, ord, 1)

doCommit(st, ovsOp, res) == Ret(OK, st, res)

doAbort(st, ovsOp, res) == Ret(OK, st, res)

\* doComment appending its write without the nil event
doCommentNoEvent(st, ovsOp, res, timestamp) ==
  IF ~Has(ovsOp, "Comment") THEN Ret(PANIC, st, res)
  ELSE Let([st.etcd EXCEPT
              !.Then = Append(@, OpPut(NewCommentKey(timestamp), ovsOp.Comment))],
           LAMBDA etcd : Ret(OK, [st EXCEPT !.etcd = etcd], res))

\* doComment; timestamp is time.Now() in RFC3339 (one-second) form
doComment(st, ovsOp, res, timestamp) ==
  IF ~Has(ovsOp, "Comment") THEN Ret(PANIC, st, res)
  ELSE Let([st.etcd EXCEPT
              !.Then = Append(@, OpPut(NewCommentKey(timestamp), ovsOp.Comment)),
              !.Events = Append(@, NilEvent)], LAMBDA etcd :
         Ret(IF EtcdAssertOK(etcd) THEN OK ELSE PANIC, [st EXCEPT !.etcd = etcd], res))

doAssert(st, ovsOp, res) == Ret(OK, st, res)

\* ovsOpCallbackMap[ovsOp.Op][0]
PreHandler(st, ovsOp, res) ==
  CASE ovsOp.Op = OP_INSERT -> preInsert(st, ovsOp, res)
    [] ovsOp.Op = OP_SELECT -> preSelect(st, ovsOp, res)
    [] ovsOp.Op = OP_UPDATE -> preUpdate(st, ovsOp, res)
    [] ovsOp.Op = OP_MUTATE -> preMutate(st, ovsOp, res)
    [] ovsOp.Op = OP_DELETE -> preDelete(st, ovsOp, res)
    [] ovsOp.Op = OP_WAIT -> preWait(st, ovsOp, res)
    [] ovsOp.Op = OP_COMMIT -> preCommit(st, ovsOp, res)
    [] ovsOp.Op = OP_ABORT -> preAbort(st, ovsOp, res)
    [] ovsOp.Op = OP_COMMENT -> preComment(st, ovsOp, res)
    [] ovsOp.Op = OP_ASSERT -> preAssert(st, ovsOp, res)

\* ovsOpCallbackMap[ovsOp.Op][1]
DoHandler(st, ovsOp, res, ord, timestamp) ==
  CASE ovsOp.Op = OP_INSERT -> doInsert(st, ovsOp, res)
    [] ovsOp.Op = OP_SELECT -> doSelect(st, ovsOp, res, ord)
    [] ovsOp.Op = OP_UPDATE -> doUpdate(st, ovsOp, res, ord)
    [] ovsOp.Op = OP_MUTATE -> doMutate(st, ovsOp, res, ord)
    [] ovsOp.Op = OP_DELETE -> doDelete(st, ovsOp, res, ord)
    [] ovsOp.Op = OP_WAIT -> doWait(st, ovsOp, res, ord)
    [] ovsOp.Op = OP_COMMIT -> doCommit(st, ovsOp, res)
    [] ovsOp.Op = OP_ABORT -> doAbort(st, ovsOp, res)
    [] ovsOp.Op = OP_COMMENT -> doComment(st, ovsOp, res, timestamp)
    [] ovsOp.Op = OP_ASSERT -> doAssert(st, ovsOp, res)

\* ------------------------------------------------------------- the state
VARIABLES
  request,   \* request[t]: the libovsdb.Transact of transaction t
  response,  \* response[t]: [Result, Error], the TransactResponse
  cache,     \* cache[t]: key -> row
  mapUUID,   \* mapUUID[t]: uuid-name -> UUID
  etcd,      \* etcd[t]: [Then, Events, EventsNilCount]
  genCount,  \* genCount[t]: UUIDs generated by t so far
  txnLock,   \* txnLock[t]: the TxnLock of t, database -> holder (0: unlocked)
  pc,        \* pc[t]: where t is in Commit
  opIdx,     \* opIdx[t]: the index of the next operation of the running pass
  ret,       \* ret[t]: what Commit returned, [rev, err]
  backend,   \* the etcd store: [kv: key -> value, rev: its revision]
  clock,     \* the wall clock in seconds
  log,       \* log[t]: the handlers run and the batches submitted, in order
  backend0   \* the key-values of the store when the transactions were created

vars ==
  <<request, response, cache, mapUUID, etcd, genCount, txnLock, pc, opIdx, ret,
    backend, clock, log, backend0>>

EmptyResult == EmptyMap

ResultError(r) == IF "Error" \in DOMAIN r THEN r.Error ELSE OK

St(t) ==
  [t |-> t, db |-> request[t].DBName, cache |-> cache[t], mapUUID |-> mapUUID[t],
   etcd |-> etcd[t], gen |-> genCount[t]]

Operations(t) == request[t].Operations

\* TxnLock.Lock returns at once iff the database's mutex is not held
CanLock(registry, db) ==
  IF db \in DOMAIN registry THEN registry[db] = 0 ELSE TRUE

\* TxnLock.Lock / TxnLock.Unlock on a registry
TxnLockLock(registry, db, t) == SetField(registry, db, t)

TxnLockUnlock(registry, db) == SetField(registry, db, 0)

\* NewTransaction: the lock registry of transaction t
NewTxnLock(t) == EmptyMap

\* the registry that transaction t locks: txn.lock
LockOf(t) == txnLock[t]

IsWrite(op) == op.op \in {"put", "delete"}

\* etcd refuses a transaction that writes one key twice
BackendAccepts(then) ==
  \A i, j \in DOMAIN then :
    (i < j /\ IsWrite(then[i]) /\ IsWrite(then[j])) => then[i].key # then[j].key

RECURSIVE ApplyThen(_, _, _)
\* the key-values after the operations from index i on
ApplyThen(kv, then, i) ==
  IF i > Len(then) THEN kv
  ELSE ApplyThen(CASE then[i].op = "put" -> SetField(kv, then[i].key, then[i].val)
                   [] then[i].op = "delete" ->
                        [k \in DOMAIN kv \ {then[i].key} |-> kv[k]]
                   [] OTHER -> kv,
                 then, i + 1)

\* Etcd.Commit on a store that answers: the store after the Then operations
\* (the If list is empty, so Then always runs)
EtcdCommit(store, then) ==
  [kv |-> ApplyThen(store.kv, then, 1),
   rev |-> IF \E i \in DOMAIN then : IsWrite(then[i]) THEN store.rev + 1 ELSE store.rev]

\* Cache.GetFromEtcd: every key-value of every range response, assigned by key
GetFromEtcd(c, store, then) ==
  LET got == {k \in DOMAIN store.kv :
                \E i \in DOMAIN then : then[i].op = "get" /\ KeyHasPrefix(k, then[i].key)}
  IN [k \in DOMAIN c \cup got |-> IF k \in got THEN store.kv[k] ELSE c[k]]

\* etcdTranaction over a backend that applies the operations of a call it
\* then reports as failed
etcdTranactionApplies(t, fail) ==
  IF fail \/ ~BackendAccepts(etcd[t].Then)
  THEN [err |-> E_IO_ERROR, store |-> EtcdCommit(backend, etcd[t].Then),
        cache |-> cache[t], rev |-> 0, failed |-> TRUE]
  ELSE Let(EtcdCommit(backend, etcd[t].Then), LAMBDA store :
       Let(GetFromEtcd(cache[t], backend, etcd[t].Then), LAMBDA loaded :
         IF CacheUnmarshalFails(loaded)
         THEN [err |-> E_INTEGRITY_VIOLATION, store |-> store, cache |-> loaded,
               rev |-> store.rev, failed |-> FALSE]
         ELSE Let(CacheUnmarshal(loaded), LAMBDA typed :
                [err |-> IF CacheValidate(typed) THEN OK ELSE E_INTEGRITY_VIOLATION,
                 store |-> store, cache |-> typed, rev |-> store.rev,
                 failed |-> FALSE])))

\* etcdTranaction with Etcd.Split at one operation per child: every write
\* of the buffer is a backend transaction of its own
etcdTranactionSplit(t, fail) ==
  IF fail
  THEN [err |-> E_IO_ERROR, store |-> backend, cache |-> cache[t], rev |-> 0,
        failed |-> TRUE]
  ELSE Let([kv |-> ApplyThen(backend.kv, etcd[t].Then, 1),
            rev |-> backend.rev +
                    Cardinality({i \in DOMAIN etcd[t].Then : IsWrite(etcd[t].Then[i])})],
           LAMBDA store :
       Let(GetFromEtcd(cache[t], backend, etcd[t].Then), LAMBDA loaded :
         IF CacheUnmarshalFails(loaded)
         THEN [err |-> E_INTEGRITY_VIOLATION, store |-> store, cache |-> loaded,
               rev |-> store.rev, failed |-> FALSE]
         ELSE Let(CacheUnmarshal(loaded), LAMBDA typed :
                [err |-> IF CacheValidate(typed) THEN OK ELSE E_INTEGRITY_VIOLATION,
                 store |-> store, cache |-> typed, rev |-> store.rev,
                 failed |-> FALSE])))

\* Transaction.etcdTranaction: [err, store, cache, rev, failed]; fail is the
\* RPC failing, failed is child.Commit() having returned an error
etcdTranaction(t, fail) ==
  IF fail \/ ~BackendAccepts(etcd[t].Then)
  THEN [err |-> E_IO_ERROR, store |-> backend, cache |-> cache[t], rev |-> 0,
        failed |-> TRUE]
  ELSE Let(EtcdCommit(backend, etcd[t].Then), LAMBDA store :
       Let(GetFromEtcd(cache[t], backend, etcd[t].Then), LAMBDA loaded :
         IF CacheUnmarshalFails(loaded)
         THEN [err |-> E_INTEGRITY_VIOLATION, store |-> store, cache |-> loaded,
               rev |-> store.rev, failed |-> FALSE]
         ELSE Let(CacheUnmarshal(loaded), LAMBDA typed :
                [err |-> IF CacheValidate(typed) THEN OK ELSE E_INTEGRITY_VIOLATION,
                 store |-> store, cache |-> typed, rev |-> store.rev,
                 failed |-> FALSE])))

\* Commit returns (rev, err): the deferred Unlock runs
Return(t, rev, err) ==
  /\ ret' = [ret EXCEPT ![t] = [rev |-> rev, err |-> err]]
  /\ pc' = [pc EXCEPT ![t] = "done"]
  /\ txnLock' = [txnLock EXCEPT ![t] = TxnLockUnlock(@, request[t].DBName)]

\* a panic unwinds Commit: the deferred Unlock runs, nothing is returned
Panic(t) ==
  /\ pc' = [pc EXCEPT ![t] = "panic"]
  /\ txnLock' = [txnLock EXCEPT ![t] = TxnLockUnlock(@, request[t].DBName)]
  /\ UNCHANGED ret

Logged(t, entry) == log' = [log EXCEPT ![t] = Append(@, entry)]

\* --------------------------------------------------- Transaction.Commit
\* line 601: txn.lock.Lock(txn.request.DBName)
Lock(t) ==
  /\ pc[t] = "new"
  /\ CanLock(LockOf(t), request[t].DBName)
  /\ txnLock' = [txnLock EXCEPT ![t] = TxnLockLock(@, request[t].DBName, t)]
  /\ pc' = [pc EXCEPT ![t] = "check"]
  /\ UNCHANGED <<request, response, cache, mapUUID, etcd, genCount, opIdx, ret,
                 backend, clock, log, backend0>>

\* hasSelect looking at the first operation only (a variant the select
\* isolation property must tell apart)
hasSelectFirst(ops) == Len(ops) > 0 /\ ops[1].Op = OP_SELECT

hasSelect(ops) == \E i \in DOMAIN ops : ops[i].Op = OP_SELECT

hasOther(ops) == \E i \in DOMAIN ops : ops[i].Op # OP_SELECT

\* Commit without its pre loop: the fetch batch is submitted at once (a
\* variant the two-pass ordering must tell apart)
CheckSelectSkipsPre(t) ==
  /\ pc[t] = "check"
  /\ IF hasSelect(Operations(t)) /\ hasOther(Operations(t))
     THEN /\ response' = [response EXCEPT ![t].Error = E_CONSTRAINT_VIOLATION]
          /\ Return(t, -1, E_CONSTRAINT_VIOLATION)
          /\ UNCHANGED <<etcd, opIdx>>
     ELSE /\ etcd' = [etcd EXCEPT ![t] = EtcdClear]
          /\ opIdx' = [opIdx EXCEPT ![t] = 1]
          /\ pc' = [pc EXCEPT ![t] = "fetch"]
          /\ UNCHANGED <<response, ret, txnLock>>
  /\ UNCHANGED <<request, cache, mapUUID, genCount, backend, clock, log, backend0>>

\* lines 606-625: select may not be mixed with other operations; then Clear
CheckSelect(t) ==
  /\ pc[t] = "check"
  /\ IF hasSelect(Operations(t)) /\ hasOther(Operations(t))
     THEN /\ response' = [response EXCEPT ![t].Error = E_CONSTRAINT_VIOLATION]
          /\ Return(t, -1, E_CONSTRAINT_VIOLATION)
          /\ UNCHANGED <<etcd, opIdx>>
     ELSE /\ etcd' = [etcd EXCEPT ![t] = EtcdClear]
          /\ opIdx' = [opIdx EXCEPT ![t] = 1]
          /\ pc' = [pc EXCEPT ![t] = IF Len(Operations(t)) = 0 THEN "fetch" ELSE "pre"]
          /\ UNCHANGED <<response, ret, txnLock>>
  /\ UNCHANGED <<request, cache, mapUUID, genCount, backend, clock, log, backend0>>

\* the handler loops with `break` in place of `return -1, err`: a failed
\* handler ends its pass and Commit goes on to the next step (a variant the
\* all-or-nothing property must tell apart)
AfterHandlerBreaks(t, i, r, pass, next) ==
  /\ cache' = [cache EXCEPT ![t] = r.st.cache]
  /\ mapUUID' = [mapUUID EXCEPT ![t] = r.st.mapUUID]
  /\ etcd' = [etcd EXCEPT ![t] = r.st.etcd]
  /\ genCount' = [genCount EXCEPT ![t] = r.st.gen]
  /\ Logged(t, [ev |-> pass, i |-> i, err |-> r.err])
  /\ IF r.err = PANIC
     THEN /\ response' = [response EXCEPT ![t].Result[i] = r.res]
          /\ Panic(t)
          /\ UNCHANGED opIdx
     ELSE IF r.err # OK
     THEN /\ response' = [response EXCEPT ![t].Result[i] = SetField(r.res, "Error", r.err),
                                          ![t].Error = r.err]
          /\ opIdx' = [opIdx EXCEPT ![t] = 1]
          /\ pc' = [pc EXCEPT ![t] = next]
          /\ UNCHANGED <<ret, txnLock>>
     ELSE /\ response' = [response EXCEPT ![t].Result[i] = r.res]
          /\ IF ~CacheValidate(r.st.cache)
             THEN Panic(t) /\ UNCHANGED opIdx
             ELSE /\ opIdx' = [opIdx EXCEPT ![t] = i + 1]
                  /\ pc' = [pc EXCEPT ![t] =
                              IF i = Len(Operations(t)) THEN next ELSE pass]
                  /\ UNCHANGED <<ret, txnLock>>

\* the handler loops without Result[i].SetError: only the batch-level error
\* is set (a variant the error propagation property must tell apart)
AfterHandlerNoSetError(t, i, r, pass, next) ==
  /\ cache' = [cache EXCEPT ![t] = r.st.cache]
  /\ mapUUID' = [mapUUID EXCEPT ![t] = r.st.mapUUID]
  /\ etcd' = [etcd EXCEPT ![t] = r.st.etcd]
  /\ genCount' = [genCount EXCEPT ![t] = r.st.gen]
  /\ Logged(t, [ev |-> pass, i |-> i, err |-> r.err])
  /\ IF r.err = PANIC
     THEN /\ response' = [response EXCEPT ![t].Result[i] = r.res]
          /\ Panic(t)
          /\ UNCHANGED opIdx
     ELSE IF r.err # OK
     THEN /\ response' = [response EXCEPT ![t].Result[i] = r.res,
                                          ![t].Error = r.err]
          /\ Return(t, -1, r.err)
          /\ UNCHANGED opIdx
     ELSE /\ response' = [response EXCEPT ![t].Result[i] = r.res]
          /\ IF ~CacheValidate(r.st.cache)
             THEN Panic(t) /\ UNCHANGED opIdx
             ELSE /\ opIdx' = [opIdx EXCEPT ![t] = i + 1]
                  /\ pc' = [pc EXCEPT ![t] =
                              IF i = Len(Operations(t)) THEN next ELSE pass]
                  /\ UNCHANGED <<ret, txnLock>>

\* what a handler leaves in the transaction, and how the loop goes on
AfterHandler(t, i, r, pass, next) ==
  /\ cache' = [cache EXCEPT ![t] = r.st.cache]
  /\ mapUUID' = [mapUUID EXCEPT ![t] = r.st.mapUUID]
  /\ etcd' = [etcd EXCEPT ![t] = r.st.etcd]
  /\ genCount' = [genCount EXCEPT ![t] = r.st.gen]
  /\ Logged(t, [ev |-> pass, i |-> i, err |-> r.err])
  /\ IF r.err = PANIC
     THEN /\ response' = [response EXCEPT ![t].Result[i] = r.res]
          /\ Panic(t)
          /\ UNCHANGED opIdx
     ELSE IF r.err # OK
     THEN /\ response' = [response EXCEPT ![t].Result[i] = SetField(r.res, "Error", r.err),
                                          ![t].Error = r.err]
          /\ Return(t, -1, r.err)
          /\ UNCHANGED opIdx
     ELSE /\ response' = [response EXCEPT ![t].Result[i] = r.res]
          /\ IF ~CacheValidate(r.st.cache)
             THEN Panic(t) /\ UNCHANGED opIdx
             ELSE /\ opIdx' = [opIdx EXCEPT ![t] = i + 1]
                  /\ pc' = [pc EXCEPT ![t] =
                              IF i = Len(Operations(t)) THEN next ELSE pass]
                  /\ UNCHANGED <<ret, txnLock>>

\* lines 626-638: the pre handler of operation opIdx
Pre(t) ==
  /\ pc[t] = "pre"
  /\ AfterHandler(t, opIdx[t],
                  PreHandler(St(t), Operations(t)[opIdx[t]],
                             response[t].Result[opIdx[t]]),
                  "pre", "fetch")
  /\ UNCHANGED <<request, backend, clock, backend0>>

\* Commit going on to the do pass whatever the fetch submission returned
FetchedGoesOn(t, r) ==
  /\ backend' = r.store
  /\ cache' = [cache EXCEPT ![t] = r.cache]
  /\ Logged(t, [ev |-> "submit", phase |-> "fetch", etcd |-> etcd[t], err |-> r.err,
                failed |-> r.failed])
  /\ etcd' = [etcd EXCEPT ![t] = EtcdClear]
  /\ opIdx' = [opIdx EXCEPT ![t] = 1]
  /\ pc' = [pc EXCEPT ![t] = IF Len(Operations(t)) = 0 THEN "dedup" ELSE "do"]
  /\ UNCHANGED <<response, ret, txnLock>>

\* lines 640-647: what follows the fetch submission with outcome r
Fetched(t, r) ==
  /\ backend' = r.store
  /\ cache' = [cache EXCEPT ![t] = r.cache]
  /\ Logged(t, [ev |-> "submit", phase |-> "fetch", etcd |-> etcd[t], err |-> r.err,
                failed |-> r.failed])
  /\ IF r.err # OK
     THEN /\ response' = [response EXCEPT ![t].Error = r.err]
          /\ Return(t, -1, r.err)
          /\ UNCHANGED <<etcd, opIdx>>
     ELSE /\ etcd' = [etcd EXCEPT ![t] = EtcdClear]
          /\ opIdx' = [opIdx EXCEPT ![t] = 1]
          /\ pc' = [pc EXCEPT ![t] = IF Len(Operations(t)) = 0 THEN "dedup" ELSE "do"]
          /\ UNCHANGED <<response, ret, txnLock>>

\* lines 639-647: the fetch submission, the cache load, and Clear
Fetch(t) ==
  /\ pc[t] = "fetch"
  /\ \E fail \in BOOLEAN : Fetched(t, etcdTranaction(t, fail))
  /\ UNCHANGED <<request, mapUUID, genCount, clock, backend0>>

\* the orders in which a do handler can iterate the rows of its table
IterOrders(t, ovsOp) ==
  IF ovsOp.Op \in {OP_SELECT, OP_UPDATE, OP_MUTATE, OP_DELETE, OP_WAIT}
     /\ Has(ovsOp, "Table")
  THEN SetToSeqs(CacheTable(cache[t], request[t].DBName, ovsOp.Table))
  ELSE {<<>>}

\* how far the clock can have moved when a handler reads it
Ticks(ovsOp) ==
  IF ovsOp.Op = OP_COMMENT THEN {d \in {0, 1} : clock + d <= MaxClock} ELSE {0}

\* lines 648-660: the do handler of operation opIdx
Do(t) ==
  /\ pc[t] = "do"
  /\ \E ord \in IterOrders(t, Operations(t)[opIdx[t]]),
        d \in Ticks(Operations(t)[opIdx[t]]) :
       /\ clock' = clock + d
       /\ AfterHandler(t, opIdx[t],
                       DoHandler(St(t), Operations(t)[opIdx[t]],
                                 response[t].Result[opIdx[t]], ord,
                                 Timestamp(clock + d)),
                       "do", "dedup")
  /\ UNCHANGED <<request, backend, backend0>>

\* etcdRemoveDup without its closing Assert (a variant the pairing property
\* must tell apart)
CompactedNoAssert(t, compacted) ==
  /\ etcd' = [etcd EXCEPT ![t] = compacted]
  /\ Logged(t, [ev |-> "dedup", before |-> etcd[t]])
  /\ pc' = [pc EXCEPT ![t] = "write"]
  /\ UNCHANGED <<ret, txnLock>>

\* line 221: the Assert that ends etcdRemoveDup, on the compacted buffer
Compacted(t, compacted) ==
  /\ etcd' = [etcd EXCEPT ![t] = compacted]
  /\ Logged(t, [ev |-> "dedup", before |-> etcd[t]])
  /\ IF EtcdAssertOK(compacted)
     THEN pc' = [pc EXCEPT ![t] = "write"] /\ UNCHANGED <<ret, txnLock>>
     ELSE Panic(t)

\* line 662: txn.etcdRemoveDup(), which ends with Assert
RemoveDup(t) ==
  /\ pc[t] = "dedup"
  /\ Compacted(t, etcdRemoveDup(etcd[t]))
  /\ UNCHANGED <<request, response, cache, mapUUID, genCount, opIdx, backend, clock,
                 backend0>>

\* lines 664-670: what follows the write submission with outcome r
Written(t, r) ==
  /\ backend' = r.store
  /\ cache' = [cache EXCEPT ![t] = r.cache]
  /\ Logged(t, [ev |-> "submit", phase |-> "write", etcd |-> etcd[t], err |-> r.err,
                failed |-> r.failed])
  /\ IF r.err # OK
     THEN /\ response' = [response EXCEPT ![t].Error = r.err]
          /\ Return(t, -1, r.err)
     ELSE /\ Return(t, r.rev, OK)
          /\ UNCHANGED response

\* lines 663-670: the write submission
Write(t) ==
  /\ pc[t] = "write"
  /\ \E fail \in BOOLEAN : Written(t, etcdTranaction(t, fail))
  /\ UNCHANGED <<request, mapUUID, etcd, genCount, opIdx, clock, backend0>>

Next ==
  \E t \in Txns :
    \/ Lock(t)
    \/ CheckSelect(t)
    \/ Pre(t)
    \/ Fetch(t)
    \/ Do(t)
    \/ RemoveDup(t)
    \/ Write(t)

\* ------------------------------------------------------------ the inputs
WUUID(s) == [tag |-> IF ValidateUUID(s) THEN "uuid" ELSE "named-uuid", val |-> s]

WSet(elems) == [tag |-> "set", val |-> elems]

WMap(pairs) == [tag |-> "map", val |-> pairs]

\* a row of table1 as the store holds it (the JSON of a full row)
StoredRow(uuid, key1, key2) ==
  [key1 |-> key1, key2 |-> key2, refs |-> WSet(<<>>), rmap |-> WMap({}),
   _uuid |-> WUUID(uuid)]

Key1(uuid) == NewDataKey(DBName, "table1", uuid)

StoreEmpty == [kv |-> EmptyMap, rev |-> 1]

StoreOne == [kv |-> (Key1("u1") :> StoredRow("u1", "val1", 1)), rev |-> 1]

StoreTwo ==
  [kv |-> (Key1("u1") :> StoredRow("u1", "val1", 1)) @@
          (Key1("u2") :> StoredRow("u2", "val2", 2)),
   rev |-> 1]

OpInsert(row) == [Op |-> OP_INSERT, Table |-> "table1", Row |-> row]

OpInsertUUID(row, uuid) ==
  [Op |-> OP_INSERT, Table |-> "table1", Row |-> row, UUID |-> [GoUUID |-> uuid]]

OpInsertNamed(row, name) ==
  [Op |-> OP_INSERT, Table |-> "table1", Row |-> row, UUIDName |-> name]

OpUpdate(row) == [Op |-> OP_UPDATE, Table |-> "table1", Row |-> row]

OpMutate(column, mutator, value) ==
  [Op |-> OP_MUTATE, Table |-> "table1",
   Mutations |-> <<[Column |-> column, Mutator |-> mutator, Value |-> value]>>]

OpDeleteAll == [Op |-> OP_DELETE, Table |-> "table1"]

OpSelectAll == [Op |-> OP_SELECT, Table |-> "table1"]

OpAbort == [Op |-> OP_ABORT]

OpCommit(durable) == [Op |-> OP_COMMIT, Durable |-> durable]

OpComment == [Op |-> OP_COMMENT, Comment |-> "add-br"]

\* every batch of 1..MaxOps operations of a menu
Batches(menu) == UNION {[1..n -> menu] : n \in 1..MaxOps}

NoRequest == [DBName |-> "", Operations |-> <<>>]

Requests(menu) == {[DBName |-> DBName, Operations |-> ops] : ops \in Batches(menu)}

\* one transaction (number 1) with a batch of the menu
OneTxn(menu) ==
  {[t \in Txns |-> IF t = 1 THEN r ELSE NoRequest] : r \in Requests(menu)}

\* the state after NewTransaction for every request, over a store
InitWith(reqs, stores) ==
  /\ request \in reqs
  /\ backend \in stores
  /\ backend0 = backend.kv
  /\ response = [t \in Txns |->
                   [Result |-> [i \in DOMAIN request[t].Operations |-> EmptyResult],
                    Error |-> OK]]
  /\ cache = [t \in Txns |-> EmptyMap]
  /\ mapUUID = [t \in Txns |-> EmptyMap]
  /\ etcd = [t \in Txns |-> EtcdClear]
  /\ genCount = [t \in Txns |-> 0]
  /\ txnLock = [t \in Txns |-> NewTxnLock(t)]
  /\ pc = [t \in Txns |-> IF request[t] = NoRequest THEN "none" ELSE "new"]
  /\ opIdx = [t \in Txns |-> 1]
  /\ ret = [t \in Txns |-> [rev |-> 0, err |-> OK]]
  /\ clock = 1
  /\ log = [t \in Txns |-> <<>>]

\* the operations of the main specification
Menu ==
  {OpInsert([key2 |-> 1]),
   OpInsertUUID([key1 |-> "val1"], "u1"),
   OpUpdate([key1 |-> "val2"]),
   OpMutate("key2", MT_SUM, 1),
   OpMutate("key2", MT_QUOTIENT, 0),
   OpDeleteAll,
   OpSelectAll,
   OpAbort,
   OpComment}

Init == InitWith(OneTxn(Menu), {StoreEmpty, StoreOne, StoreTwo})

Spec == Init /\ [][Next]_vars

\* ----------------------------------------------- named-UUID specification
\* operations whose rows and mutations hold named-uuid references: n1 is
\* registered by the first operation (when the batch has it), n2 by none
MenuUUID ==
  {OpInsertNamed([key2 |-> 1], "n1"),
   OpInsert([refs |-> WSet(<<WUUID("n1")>>)]),
   OpInsert([refs |-> WSet(<<WUUID("n2")>>)]),
   OpUpdate([rmap |-> WMap({<<WUUID("u1"), WUUID("n1")>>})]),
   OpUpdate([rmap |-> WMap({<<WUUID("n1"), WUUID("u1")>>})]),
   OpMutate("refs", MT_INSERT, WSet(<<WUUID("n1")>>)),
   OpMutate("refs", MT_INSERT, WSet(<<WUUID("n2")>>))}

InitUUID == InitWith(OneTxn(MenuUUID), {StoreEmpty, StoreOne})

SpecUUID == InitUUID /\ [][Next]_vars

\* ---------------------------------------------- concurrent specification
\* two transactions on the same database, each incrementing key2 of every
\* row of table1
ConcRequest == [DBName |-> DBName, Operations |-> <<OpMutate("key2", MT_SUM, 1)>>]

InitConc == InitWith({[t \in Txns |-> ConcRequest]}, {StoreOne, StoreTwo})

SpecConc == InitConc /\ [][Next]_vars

\* ------------------------------------------------------------ properties
\* entries of the log
IsHandler(e) == e.ev \in {"pre", "do"}

IsSubmit(e, phase) == e.ev = "submit" /\ e.phase = phase

\* the handler entry reports a returned error (a panic returns nothing)
HandlerError(e) == IsHandler(e) /\ e.err \notin {OK, PANIC}

HandlerFailed(t) == \E k \in DOMAIN log[t] : HandlerError(log[t][k])

\* C1: all-or-nothing on op error.  When a pre or do handler of the
\* transaction has returned an error, the store holds exactly the key-values
\* it held when the transaction was created: no put or delete was applied.
AllOrNothingOnOpError ==
  \A t \in Txns : HandlerFailed(t) => backend.kv = backend0

\* a do handler failed after an earlier do handler had queued a write, and
\* Commit has returned
AllOrNothingWitness ==
  /\ pc[1] = "done"
  /\ Len(etcd[1].Then) > 0
  /\ \E k \in DOMAIN log[1] : log[1][k].ev = "do" /\ HandlerError(log[1][k])

\* C2: linearizability per database, for two concurrent transactions that
\* each mutate key2 of every row with += 1: when both have committed, every
\* row's key2 is 2 more than at the start.
LinearizableIncrements ==
  (\A t \in Txns : pc[t] = "done" /\ ret[t].err = OK) =>
    \A k \in DOMAIN backend0 :
      k \in DOMAIN backend.kv /\ backend.kv[k].key2 = backend0[k].key2 + 2

\* C3: mutual exclusion per database.  At most one transaction of a database
\* is between the start of its fetch pass and the end of its write
\* submission.
InCommitPasses(t) == pc[t] \in {"pre", "fetch", "do", "dedup", "write"}

MutualExclusionPerDatabase ==
  \A t1, t2 \in Txns :
    (t1 # t2 /\ request[t1].DBName = request[t2].DBName) =>
      ~(InCommitPasses(t1) /\ InCommitPasses(t2))

\* the batch of t holds a select and an operation of another kind
MixesSelect(t) ==
  \E i, j \in DOMAIN Operations(t) :
    Operations(t)[i].Op = OP_SELECT /\ Operations(t)[j].Op # OP_SELECT

\* C4: select isolation.  A batch that mixes select with another kind of
\* operation runs no handler and submits no batch (its log stays empty), the
\* store is untouched, and Commit returns -1 with `constraint violation`,
\* which is also the batch-level error.
SelectIsolation ==
  \A t \in Txns :
    MixesSelect(t) =>
      /\ log[t] = <<>>
      /\ backend.kv = backend0
      /\ pc[t] \in {"new", "check", "done"}
      /\ pc[t] = "done" =>
           /\ ret[t] = [rev |-> -1, err |-> E_CONSTRAINT_VIOLATION]
           /\ response[t].Error = E_CONSTRAINT_VIOLATION

\* Commit has returned for a batch whose select is not its first operation
SelectIsolationWitness ==
  /\ pc[1] = "done"
  /\ MixesSelect(1)
  /\ Operations(1)[1].Op # OP_SELECT

\* C5: error propagation.  When the handler of operation i returned the
\* error e, that entry is the last of the log (no later handler ran, no
\* batch was submitted after it), Result[i].Error and response.Error are e,
\* and Commit returned (-1, e).
ErrorPropagation ==
  \A t \in Txns :
    \A k \in DOMAIN log[t] :
      HandlerError(log[t][k]) =>
        /\ k = Len(log[t])
        /\ pc[t] = "done"
        /\ ret[t] = [rev |-> -1, err |-> log[t][k].err]
        /\ response[t].Error = log[t][k].err
        /\ ResultError(response[t].Result[log[t][k].i]) = log[t][k].err

\* the do handler of the first of several operations returned an error
ErrorPropagationWitness ==
  /\ pc[1] = "done"
  /\ Len(Operations(1)) >= 2
  /\ \E k \in DOMAIN log[1] :
       log[1][k].ev = "do" /\ log[1][k].i = 1 /\ HandlerError(log[1][k])

\* does the k-th entry of the log of t stand where Commit's two passes put it:
\* n pre handlers, the fetch submission, n do handlers, the compaction, the
\* write submission
InPassOrder(t, k) ==
  LET n == Len(Operations(t))
      e == log[t][k]
  IN IF k <= n THEN e.ev = "pre" /\ e.i = k
     ELSE IF k = n + 1 THEN IsSubmit(e, "fetch")
     ELSE IF k <= 2 * n + 1 THEN e.ev = "do" /\ e.i = k - n - 1
     ELSE IF k = 2 * n + 2 THEN e.ev = "dedup"
     ELSE k = 2 * n + 3 /\ IsSubmit(e, "write")

\* the step of the entry succeeded
Succeeded(e) == e.ev = "dedup" \/ e.err = OK

\* C6: two-pass ordering.  The log of a transaction is a prefix of: the pre
\* handlers in request order, the fetch submission, the do handlers in
\* request order, the compaction, the write submission; and every step but
\* the last one logged has succeeded.
TwoPassOrdering ==
  \A t \in Txns :
    \A k \in DOMAIN log[t] :
      /\ InPassOrder(t, k)
      /\ k < Len(log[t]) => Succeeded(log[t][k])

\* a batch of several operations went through both passes to the write
TwoPassOrderingWitness ==
  /\ Len(Operations(1)) >= 2
  /\ Len(log[1]) = 2 * Len(Operations(1)) + 3
  /\ ret[1].err = OK
  /\ pc[1] = "done"

\* the buffers a transaction has handed to the backend
Submitted(t) == {log[t][k].etcd : k \in {j \in DOMAIN log[t] : log[t][j].ev = "submit"}}

WriteCount(then) == Cardinality({i \in DOMAIN then : IsWrite(then[i])})

\* C7 as stated: pairing at submission.  For every batch handed to the
\* backend, the fetch batch as well as the write batch, the number of
\* operations in the batch equals the number of events plus the nil-event
\* counter.
PairingOfOperations ==
  \A t \in Txns : \A e \in Submitted(t) : Len(e.Then) = Len(e.Events) + e.EventsNilCount

\* C7 amended: pairing at submission.  For every batch handed to the
\* backend, the fetch batch as well as the write batch, the number of put
\* and delete operations in the batch equals the number of events plus the
\* nil-event counter.
PairingOfWrites ==
  \A t \in Txns :
    \A e \in Submitted(t) : WriteCount(e.Then) = Len(e.Events) + e.EventsNilCount

\* a fetch batch with a get and a write batch with a put or delete were both
\* handed to the backend
PairingWitness ==
  /\ \E k \in DOMAIN log[1] :
       IsSubmit(log[1][k], "fetch") /\ Len(log[1][k].etcd.Then) > 0
  /\ \E k \in DOMAIN log[1] :
       IsSubmit(log[1][k], "write") /\ WriteCount(log[1][k].etcd.Then) > 0

\* the positions of the write submissions in the log of t; the entry before
\* each is the compaction, which holds the buffer as the do handlers left it
WriteSubmissions(t) == {k \in DOMAIN log[t] : IsSubmit(log[t][k], "write")}

\* the last operation of the key in the sequence
LastFor(then, key) ==
  then[CHOOSE i \in DOMAIN then :
         /\ etcdOpKey(then[i]) = key
         /\ \A j \in DOMAIN then : etcdOpKey(then[j]) = key => j <= i]

\* C8: write dedup.  In every submitted write batch no two operations have
\* the same key, every key the do handlers wrote has an operation, and the
\* operation of a key is the last one the do handlers appended for it.
WriteDedup ==
  \A t \in Txns :
    \A k \in WriteSubmissions(t) :
      LET before == log[t][k - 1].before.Then
          after == log[t][k].etcd.Then
      IN /\ \A i, j \in DOMAIN after :
              etcdOpKey(after[i]) = etcdOpKey(after[j]) => i = j
         /\ \A i \in DOMAIN before :
              \E j \in DOMAIN after : etcdOpKey(after[j]) = etcdOpKey(before[i])
         /\ \A j \in DOMAIN after :
              /\ \E i \in DOMAIN before : etcdOpKey(before[i]) = etcdOpKey(after[j])
              /\ after[j] = LastFor(before, etcdOpKey(after[j]))

\* a write batch was submitted after the do handlers appended two different
\* operations for one key
WriteDedupWitness ==
  \E k \in WriteSubmissions(1) :
    \E i, j \in DOMAIN log[1][k - 1].before.Then :
      LET before == log[1][k - 1].before.Then
      IN i < j /\ etcdOpKey(before[i]) = etcdOpKey(before[j]) /\ before[i] # before[j]

\* the indices of the events of the key
EventsOf(events, key) ==
  {i \in DOMAIN events : events[i] # NilEvent /\ etcdEventKey(events[i]) = key}

\* the key was created and then modified one or more times, and nothing else
CreatedThenModified(events, key) ==
  LET idx == EventsOf(events, key)
  IN /\ Cardinality(idx) >= 2
     /\ \A i \in idx :
          IF \A j \in idx : i <= j
          THEN etcdEventIsCreate(events[i])
          ELSE etcdEventIsModify(events[i])

\* C9: event fusion.  When a key is created and then modified within the
\* transaction, the compacted buffer holds exactly one event of the key, a
\* create, whose value is the value the write batch puts for the key.
EventFusion ==
  \A t \in Txns :
    \A k \in WriteSubmissions(t) :
      LET before == log[t][k - 1].before
          after == log[t][k].etcd
      IN \A key \in {etcdEventKey(before.Events[i]) :
                       i \in {j \in DOMAIN before.Events : before.Events[j] # NilEvent}} :
           CreatedThenModified(before.Events, key) =>
             /\ Cardinality(EventsOf(after.Events, key)) = 1
             /\ \A i \in EventsOf(after.Events, key) :
                  /\ etcdEventIsCreate(after.Events[i])
                  /\ \E j \in DOMAIN after.Then :
                       /\ after.Then[j] = OpPut(key, after.Events[i].Kv.Value)

IsNamedWire(v) == v.tag = "named-uuid"

\* does the JSON of a row hold a named-uuid reference, by the column types
ValueHasNamed(table, val) ==
  \E c \in DOMAIN val :
    LET cs == ColumnSchema(table, c)
    IN CASE cs.Type = "uuid" -> IsNamedWire(val[c])
         [] cs.Type = "set" ->
              cs.Key = "uuid" /\ \E i \in DOMAIN val[c].val : IsNamedWire(val[c].val[i])
         [] cs.Type = "map" ->
              \E p \in val[c].val :
                \/ cs.Key = "uuid" /\ IsNamedWire(p[1])
                \/ cs.Value = "uuid" /\ IsNamedWire(p[2])
         [] OTHER -> FALSE

\* the names a wire value of the column refers to
NamesOfValue(cs, v) ==
  CASE cs.Type = "uuid" -> IF IsNamedWire(v) THEN {v.val} ELSE {}
    [] cs.Type = "set" ->
         {v.val[i].val : i \in {j \in DOMAIN v.val : IsNamedWire(v.val[j])}}
    [] cs.Type = "map" ->
         {p[1].val : p \in {q \in v.val : IsNamedWire(q[1])}} \cup
         {p[2].val : p \in {q \in v.val : IsNamedWire(q[2])}}
    [] OTHER -> {}

\* the names the row of an insert or update, or the mutations of a mutate,
\* refer to
NamesOfOp(op) ==
  IF op.Op \in {OP_INSERT, OP_UPDATE}
  THEN UNION {NamesOfValue(ColumnSchema(op.Table, c), op.Row[c]) : c \in DOMAIN op.Row}
  ELSE IF op.Op = OP_MUTATE
  THEN UNION {NamesOfValue(ColumnSchema(op.Table, op.Mutations[m].Column),
                           op.Mutations[m].Value) : m \in DOMAIN op.Mutations}
  ELSE {}

\* the operation refers to a name that no insert of the batch registers (the
\* map is filled by the pre handlers only)
RefersToUnregistered(t, i) ==
  \E n \in NamesOfOp(Operations(t)[i]) :
    \A j \in DOMAIN Operations(t) :
      ~(Has(Operations(t)[j], "UUIDName") /\ Operations(t)[j].UUIDName = n)

OpInsertNamedUUID(row, name, uuid) ==
  [Op |-> OP_INSERT, Table |-> "table1", Row |-> row, UUIDName |-> name,
   UUID |-> [GoUUID |-> uuid]]

\* inserts that bind the name n1, with and without a UUID of the client, and
\* the operations that end a batch in their pre handler
MenuCtl ==
  {OpInsert([key2 |-> 1]),
   OpInsertNamed([key2 |-> 1], "n1"),
   OpInsertNamedUUID([key2 |-> 2], "n1", "u2"),
   OpAbort,
   OpCommit(TRUE),
   OpCommit(FALSE),
   OpSelectAll}

InitCtl == InitWith(OneTxn(MenuCtl), {StoreEmpty, StoreOne})

SpecCtl == InitCtl /\ [][Next]_vars

IsNamedInsert(op) == op.Op = OP_INSERT /\ Has(op, "UUIDName")

\* operation j is an insert whose uuid-name an earlier insert of the batch
\* carries
RepeatsName(t, j) ==
  /\ IsNamedInsert(Operations(t)[j])
  /\ \E i \in 1..(j - 1) :
       /\ IsNamedInsert(Operations(t)[i])
       /\ Operations(t)[i].UUIDName = Operations(t)[j].UUIDName

\* the first operation of the batch that carries the name
FirstWithName(t, name) ==
  CHOOSE i \in DOMAIN Operations(t) :
    /\ IsNamedInsert(Operations(t)[i]) /\ Operations(t)[i].UUIDName = name
    /\ \A k \in 1..(i - 1) :
         ~(IsNamedInsert(Operations(t)[k]) /\ Operations(t)[k].UUIDName = name)

\* the UUID the pre handler of operation i binds to its name: the client's,
\* or the next generated one
BoundBy(t, i) ==
  IF Has(Operations(t)[i], "UUID") THEN Operations(t)[i].UUID.GoUUID
  ELSE GenerateUUID(t, Cardinality({k \in 1..i : /\ IsNamedInsert(Operations(t)[k])
                                                   /\ ~Has(Operations(t)[k], "UUID")}))

HasWriteSubmission(t) == \E k \in DOMAIN log[t] : IsSubmit(log[t][k], "write")

\* C11: named-UUID uniqueness.  When an insert carries the uuid-name of an
\* earlier insert of the batch, its pre handler fails with `duplicate
\* uuid-name`, the name stays bound to the UUID the first insert bound, and
\* the transaction runs no do handler, submits no write and leaves the store
\* as it was.
NamedUUIDUniqueness ==
  \A t \in Txns :
    \A j \in DOMAIN Operations(t) :
      RepeatsName(t, j) =>
        /\ \A k \in DOMAIN log[t] :
             (log[t][k].ev = "pre" /\ log[t][k].i = j) =>
               /\ log[t][k].err = E_DUP_UUIDNAME
               /\ mapUUID[t][Operations(t)[j].UUIDName] =
                    BoundBy(t, FirstWithName(t, Operations(t)[j].UUIDName))
               /\ ret[t] = [rev |-> -1, err |-> E_DUP_UUIDNAME]
        /\ \A m \in DOMAIN log[t] : log[t][m].ev # "do"
        /\ ~HasWriteSubmission(t)
        /\ backend.kv = backend0

\* the pre handler of a second insert of the name, which carries another
\* UUID than the first bound, has failed
NamedUUIDUniquenessWitness ==
  \E j \in DOMAIN Operations(1) :
    /\ RepeatsName(1, j)
    /\ BoundBy(1, j) # BoundBy(1, FirstWithName(1, Operations(1)[j].UUIDName))
    /\ \E k \in DOMAIN log[1] :
         log[1][k].ev = "pre" /\ log[1][k].i = j /\ log[1][k].err = E_DUP_UUIDNAME

ContainsAbort(t) == \E i \in DOMAIN Operations(t) : Operations(t)[i].Op = OP_ABORT

\* C12 as stated: abort.  Every batch that contains an abort, at any position
\* and together with any other operations, returns the error `aborted` and
\* writes nothing to the backend.
AbortAlwaysAborted ==
  \A t \in Txns :
    ContainsAbort(t) =>
      /\ backend.kv = backend0
      /\ pc[t] = "done" => ret[t].err = E_ABORTED

FirstAbort(t) ==
  CHOOSE i \in DOMAIN Operations(t) :
    /\ Operations(t)[i].Op = OP_ABORT
    /\ \A k \in 1..(i - 1) : Operations(t)[k].Op # OP_ABORT

\* the pre handler of an operation before index i has returned an error
PreFailedBefore(t, i) ==
  \E k \in DOMAIN log[t] :
    log[t][k].ev = "pre" /\ log[t][k].i < i /\ log[t][k].err # OK

\* C12 amended: abort.  Every batch that contains an abort, at any position
\* and together with any other operations, returns an error and writes
\* nothing to the backend (no do handler, no write submission); the error is
\* `aborted` unless the batch mixes in a select or the pre handler of an
\* operation before the first abort has failed.
AbortFails ==
  \A t \in Txns :
    ContainsAbort(t) =>
      /\ backend.kv = backend0
      /\ ~HasWriteSubmission(t)
      /\ \A k \in DOMAIN log[t] : log[t][k].ev # "do"
      /\ pc[t] \in {"new", "check", "pre", "done", "panic"}
      /\ pc[t] = "done" =>
           /\ ret[t].rev = -1
           /\ ret[t].err # OK
           /\ response[t].Error = ret[t].err
           /\ (~MixesSelect(t) /\ ~PreFailedBefore(t, FirstAbort(t))) =>
                ret[t].err = E_ABORTED

\* a batch whose abort follows an insert has returned `aborted`
AbortFailsWitness ==
  /\ pc[1] = "done"
  /\ ContainsAbort(1)
  /\ FirstAbort(1) > 1
  /\ Operations(1)[1].Op = OP_INSERT
  /\ ret[1].err = E_ABORTED

IsCommit(op, durable) == op.Op = OP_COMMIT /\ Has(op, "Durable") /\ op.Durable = durable

ContainsDurableCommit(t) ==
  \E i \in DOMAIN Operations(t) : IsCommit(Operations(t)[i], TRUE)

FirstDurableCommit(t) ==
  CHOOSE i \in DOMAIN Operations(t) :
    /\ IsCommit(Operations(t)[i], TRUE)
    /\ \A k \in 1..(i - 1) : ~IsCommit(Operations(t)[k], TRUE)

\* the handlers of a commit with durable=false that have run returned nil and
\* left the operation's result empty
PlainCommitSucceeds ==
  \A t \in Txns :
    \A k \in DOMAIN log[t] :
      (IsHandler(log[t][k]) /\ IsCommit(Operations(t)[log[t][k].i], FALSE)) =>
        /\ log[t][k].err = OK
        /\ response[t].Result[log[t][k].i] = EmptyResult

\* C13 as stated: durable commit.  A batch containing a commit with
\* durable=true returns `not supported` and writes nothing; the handlers of a
\* commit with durable=false succeed and leave the result empty.
DurableCommitNotSupported ==
  /\ \A t \in Txns :
       ContainsDurableCommit(t) =>
         /\ backend.kv = backend0
         /\ pc[t] = "done" => ret[t].err = E_NOT_SUPPORTED
  /\ PlainCommitSucceeds

\* is the step a handler of transaction t on a commit with durable=false
PlainCommitStep(t) ==
  IF pc[t] \in {"pre", "do"} /\ log'[t] # log[t]
  THEN IsCommit(Operations(t)[opIdx[t]], FALSE)
  ELSE FALSE

\* C13 amended: durable commit.  A batch containing a commit with
\* durable=true fails without running a do handler and writes nothing; the
\* error returned is `not supported` unless the batch mixes a select with
\* other operations or the pre handler of an operation before that commit has
\* failed.  The handlers of a commit with durable=false return nil and change
\* neither the cache, nor the write buffer, nor the result.
DurableCommit ==
  /\ [](\A t \in Txns :
          ContainsDurableCommit(t) =>
            /\ backend.kv = backend0
            /\ ~HasWriteSubmission(t)
            /\ \A k \in DOMAIN log[t] : log[t][k].ev # "do"
            /\ pc[t] = "done" =>
                 /\ ret[t].rev = -1
                 /\ ret[t].err # OK
                 /\ response[t].Error = ret[t].err
                 /\ (~MixesSelect(t) /\ ~PreFailedBefore(t, FirstDurableCommit(t))) =>
                      ret[t].err = E_NOT_SUPPORTED)
  /\ []PlainCommitSucceeds
  /\ [][\A t \in Txns :
          PlainCommitStep(t) =>
            /\ cache'[t] = cache[t]
            /\ etcd'[t] = etcd[t]
            /\ mapUUID'[t] = mapUUID[t]
            /\ response'[t] = response[t]
            /\ backend' = backend]_vars

\* a batch has returned `not supported` from a durable commit that follows a
\* commit with durable=false, whose pre handler has run
DurableCommitWitness ==
  /\ pc[1] = "done"
  /\ ret[1].err = E_NOT_SUPPORTED
  /\ FirstDurableCommit(1) > 1
  /\ IsCommit(Operations(1)[1], FALSE)

\* ------------------------------------------------------ wait specification
\* a wait on table1 with every field
OpWait(rows, until) ==
  [Op |-> OP_WAIT, Table |-> "table1", Timeout |-> 0, Rows |-> rows, Until |-> until]

\* the operation without one of its fields
Without(op, field) == [f \in DOMAIN op \ {field} |-> op[f]]

\* the contents of `rows`: none, the key2 of the stored row u1, the key2 of no
\* stored row
WaitRowsMenu == {<<>>, <<[key2 |-> 1]>>, <<[key2 |-> 7]>>}

\* waits with every field and waits that lack timeout, rows or until
MenuWait ==
  {OpWait(rows, until) : rows \in WaitRowsMenu, until \in {FN_EQ, FN_NE}}
  \cup {Without(OpWait(rows, FN_EQ), "Timeout") : rows \in WaitRowsMenu}
  \cup {Without(OpWait(rows, FN_EQ), "Until") : rows \in WaitRowsMenu}
  \cup {Without(OpWait(<<>>, FN_EQ), "Rows")}

InitWait == InitWith(OneTxn(MenuWait), {StoreEmpty, StoreTwo})

SpecWait == InitWait /\ [][Next]_vars

\* the wait lacks exactly one of timeout, rows and until
LacksOneField(op) ==
  /\ op.Op = OP_WAIT
  /\ Has(op, "Table")
  /\ Cardinality({"Timeout", "Rows", "Until"} \ DOMAIN op) = 1

\* C14: wait field validation.  A transaction whose batch holds a wait that
\* lacks one of timeout, rows and until ends with a non-empty batch error,
\* whatever `rows` and the table hold.
WaitFieldValidation ==
  \A t \in Txns :
    (\E i \in DOMAIN Operations(t) : LacksOneField(Operations(t)[i])) =>
      /\ pc[t] = "done" => (response[t].Error # OK /\ ret[t].err # OK)

\* ------------------------------------------------ C15: insert with defaults
\* the wire form of the schema default of a column
WireDefault(cs) ==
  CASE cs.Type = "string" -> ""
    [] cs.Type = "integer" -> 0
    [] cs.Type = "set" -> [tag |-> "set", val |-> <<>>]
    [] cs.Type = "map" -> [tag |-> "map", val |-> {}]

\* the step of t is the do handler of an insert, and it returned nil
InsertDone(t) ==
  /\ Len(log'[t]) = Len(log[t]) + 1
  /\ log'[t][Len(log'[t])].ev = "do"
  /\ log'[t][Len(log'[t])].err = OK
  /\ Operations(t)[log'[t][Len(log'[t])].i].Op = OP_INSERT

\* what the insert at index i of t left: the cache row under the new key and
\* the put appended to the write batch
InsertedAsAsked(t, i) ==
  LET op == Operations(t)[i]
      res == response'[t].Result[i]
      key == NewDataKey(DBName, op.Table, res.UUID)
      put == etcd'[t].Then[Len(etcd'[t].Then)]
  IN /\ Has(res, "UUID")
     /\ key \in DOMAIN cache'[t]
     /\ Len(etcd'[t].Then) = Len(etcd[t].Then) + 1
     /\ put.op = "put" /\ put.key = key
     /\ DOMAIN put.val = DOMAIN Schema[op.Table] \cup {COL_UUID}
     /\ put.val = makeValue(op.Table, cache'[t][key])
     /\ \A c \in DOMAIN op.Row \ {COL_UUID} : put.val[c] = op.Row[c]
     /\ \A c \in DOMAIN Schema[op.Table] \ DOMAIN op.Row :
          put.val[c] = WireDefault(Schema[op.Table][c])
     /\ put.val[COL_UUID] = WUUID(res.UUID)

\* C15: when the do handler of an insert returns nil, the row it stored in the
\* cache and put to the write batch under the new key has every column the
\* client gave with the client's value, every other schema column with its
\* schema default, and the _uuid that the operation's result reports.
InsertWithDefaults ==
  [][\A t \in Txns : InsertDone(t) => InsertedAsAsked(t, log'[t][Len(log'[t])].i)]_vars

\* an insert that gave key1 only has returned nil, and its put holds key2 = 0
InsertWithDefaultsWitness ==
  \E t \in Txns :
    /\ log[t] # <<>>
    /\ log[t][Len(log[t])].ev = "do" /\ log[t][Len(log[t])].err = OK
    /\ Operations(t)[log[t][Len(log[t])].i] = OpInsertUUID([key1 |-> "val1"], "u1")
    /\ etcd[t].Then # <<>>
    /\ etcd[t].Then[Len(etcd[t].Then)].op = "put"
    /\ etcd[t].Then[Len(etcd[t].Then)].val["key2"] = 0
    /\ etcd[t].Then[Len(etcd[t].Then)].val["key1"] = "val1"

\* ------------------------------------------- C16: read-your-writes
\* the wire value an insert of the client's row under the UUID leaves
InsertValue(op, uuid) ==
  [c \in DOMAIN Schema[op.Table] \cup {COL_UUID} |->
     IF c = COL_UUID THEN WUUID(uuid)
     ELSE IF c \in DOMAIN op.Row THEN op.Row[c]
     ELSE WireDefault(Schema[op.Table][c])]

\* the wire value an update (its row's columns replace the value's) or a
\* mutate adding to an integer column makes of a value
ValueAfter(op, val) ==
  CASE op.Op = OP_UPDATE ->
         [c \in DOMAIN val |-> IF c \in DOMAIN op.Row THEN op.Row[c] ELSE val[c]]
    [] op.Op = OP_MUTATE ->
         [c \in DOMAIN val |->
            IF c = op.Mutations[1].Column THEN val[c] + op.Mutations[1].Value
            ELSE val[c]]
    [] OTHER -> val

\* the value after the operations j..Len(ops) in request order
RECURSIVE ValueAfterAll(_, _, _)
ValueAfterAll(ops, j, val) ==
  IF j > Len(ops) THEN val ELSE ValueAfterAll(ops, j + 1, ValueAfter(ops[j], val))

IsModifier(op) ==
  \/ op.Op = OP_UPDATE
  \/ op.Op = OP_MUTATE /\ Len(op.Mutations) = 1 /\ op.Mutations[1].Mutator = MT_SUM

\* a committed batch of inserts, updates and additions only
InsertsAndModifiers(t) ==
  /\ pc[t] = "done" /\ ret[t].err = OK
  /\ \A i \in DOMAIN Operations(t) :
       Operations(t)[i].Op = OP_INSERT \/ IsModifier(Operations(t)[i])

InsertsBefore(t, j) == {i \in 1..(j - 1) : Operations(t)[i].Op = OP_INSERT}

\* C16: read-your-writes inside a transaction.  In a committed batch of
\* inserts, updates and mutates, every update or mutate matches the rows of
\* the store and the rows inserted by the earlier operations of the batch;
\* and for every inserted row the write batch holds exactly one operation of
\* its key, a put of the value after the last operation, which is what the
\* store holds under the key afterwards.
ReadYourWrites ==
  \A t \in Txns :
    InsertsAndModifiers(t) =>
      LET ops == Operations(t)
          w == log[t][Len(log[t])].etcd.Then
      IN /\ \A j \in DOMAIN ops :
              IsModifier(ops[j]) =>
                response[t].Result[j].Count =
                  Cardinality(DOMAIN backend0) + Cardinality(InsertsBefore(t, j))
         /\ \A i \in DOMAIN ops :
              ops[i].Op = OP_INSERT =>
                LET uuid == response[t].Result[i].UUID
                    key == NewDataKey(DBName, ops[i].Table, uuid)
                    val == ValueAfterAll(ops, i + 1, InsertValue(ops[i], uuid))
                IN /\ Cardinality({k \in DOMAIN w : etcdOpKey(w[k]) = key}) = 1
                   /\ \E k \in DOMAIN w : w[k] = OpPut(key, val)
                   /\ key \in DOMAIN backend.kv
                   /\ backend.kv[key] = val

\* insert {key2: 1} then mutate key2 += 1 has committed, and the store holds
\* key2 = 2 under the key of the inserted row
ReadYourWritesWitness ==
  \E t \in Txns :
    /\ InsertsAndModifiers(t)
    /\ Operations(t) = <<OpInsert([key2 |-> 1]), OpMutate("key2", MT_SUM, 1)>>
    /\ \E key \in DOMAIN backend.kv :
         /\ key.UUID = response[t].Result[1].UUID
         /\ backend.kv[key]["key2"] = 2

\* ------------------------------------------------------- C17: delete all
\* a store that also holds a row of another table and a comment record
WithOthers(store) ==
  [store EXCEPT !.kv = @ @@ (NewDataKey(DBName, "table2", "u9") :> [name |-> "other"])
                         @@ (NewCommentKey("t0") :> "old-comment")]

StoresDel ==
  {StoreOne} \cup {WithOthers(store) : store \in {StoreEmpty, StoreOne, StoreTwo}}

MenuDel == {OpDeleteAll, OpInsert([key2 |-> 1]), OpUpdate([key1 |-> "val2"])}

InitDel == InitWith(OneTxn(MenuDel), StoresDel)

SpecDel == InitDel /\ [][Next]_vars

\* the keys of the table in a key-value map
KeysOfTable(kv, table) == {k \in DOMAIN kv : k.TableName = table}

\* the transaction is one delete without a where clause, and has committed
OneDeleteCommitted(t) ==
  /\ pc[t] = "done" /\ ret[t].err = OK
  /\ Len(Operations(t)) = 1
  /\ Operations(t)[1].Op = OP_DELETE
  /\ ~Has(Operations(t)[1], "Where")

\* C17: delete all.  After a committed transaction of one delete without a
\* where clause the store holds no row of the delete's table, whatever rows
\* the table held, and holds the rows of every other table as they were.
DeleteAll ==
  \A t \in Txns :
    OneDeleteCommitted(t) =>
      LET table == Operations(t)[1].Table
      IN /\ KeysOfTable(backend.kv, table) = {}
         /\ DOMAIN backend.kv = DOMAIN backend0 \ KeysOfTable(backend0, table)
         /\ \A k \in DOMAIN backend.kv : backend.kv[k] = backend0[k]
         /\ response[t].Result[1].Count = Cardinality(KeysOfTable(backend0, table))

\* one delete has committed on a store that held two rows of the table and
\* rows of other tables
DeleteAllWitness ==
  \E t \in Txns :
    /\ OneDeleteCommitted(t)
    /\ Cardinality(KeysOfTable(backend0, "table1")) = 2
    /\ DOMAIN backend0 # KeysOfTable(backend0, "table1")
    /\ KeysOfTable(backend.kv, "table1") = {}

\* ------------------------------------------------------------ C18: select
Cond(column, function, value) ==
  [Column |-> column, Function |-> function, Value |-> value]

OpSelect(where) == [Op |-> OP_SELECT, Table |-> "table1", Where |-> where]

OpSelectColumns(where, columns) ==
  [Op |-> OP_SELECT, Table |-> "table1", Where |-> where, Columns |-> columns]

MenuSel ==
  {OpSelectAll,
   OpSelect(<<Cond("key2", FN_GE, 1), Cond("key2", FN_LE, 1)>>),
   OpSelect(<<Cond(COL_UUID, FN_EQ, WUUID("u2"))>>),
   OpSelectColumns(<<Cond("key2", FN_LT, 2)>>, <<"key1">>),
   OpSelectColumns(<<Cond("key1", FN_NE, "val1"), Cond("key2", FN_GE, 2)>>,
                   <<"key2", COL_UUID>>),
   OpSelectColumns(<<>>, <<"key2">>)}

StoreSame ==
  [kv |-> (Key1("u1") :> StoredRow("u1", "val1", 1)) @@
          (Key1("u2") :> StoredRow("u2", "val1", 1)),
   rev |-> 1]

InitSel == InitWith(OneTxn(MenuSel), {StoreEmpty, StoreOne, StoreTwo, StoreSame})

SpecSel == InitSel /\ [][Next]_vars

\* does the stored value satisfy the condition, read off the wire forms
CondHolds(val, c) ==
  CASE c.Function = FN_EQ -> val[c.Column] = c.Value
    [] c.Function = FN_NE -> val[c.Column] # c.Value
    [] c.Function = FN_LT -> val[c.Column] < c.Value
    [] c.Function = FN_LE -> val[c.Column] <= c.Value
    [] c.Function = FN_GE -> val[c.Column] >= c.Value

\* the keys of the stored rows of the table that satisfy the where clause
Matching(kv, op) ==
  {k \in KeysOfTable(kv, op.Table) :
     ~Has(op, "Where") \/ \A n \in DOMAIN op.Where : CondHolds(kv[k], op.Where[n])}

\* the stored value projected onto the requested columns
Projected(val, op) ==
  IF Has(op, "Columns") THEN [c \in Range(op.Columns) |-> val[c]] ELSE val

OnlySelects(t) ==
  /\ Operations(t) # <<>>
  /\ \A i \in DOMAIN Operations(t) : Operations(t)[i].Op = OP_SELECT

\* C18: select.  A transaction made only of selects leaves the store as it
\* was, and when it returns without error the rows of every select are, in
\* some order, exactly the stored rows of the table that satisfy its where
\* clause (all of them when there is none), each projected onto the requested
\* columns.
SelectReturnsMatching ==
  \A t \in Txns :
    OnlySelects(t) =>
      /\ backend.kv = backend0
      /\ (pc[t] = "done" /\ ret[t].err = OK) =>
           \A i \in DOMAIN Operations(t) :
             LET op == Operations(t)[i]
                 rows == response[t].Result[i].Rows
                 keys == Matching(backend0, op)
             IN /\ Len(rows) = Cardinality(keys)
                /\ \E ord \in SetToSeqs(keys) :
                     \A n \in DOMAIN rows :
                       makeValue(op.Table, rows[n]) = Projected(backend0[ord[n]], op)

\* a select with a where clause and a column list has returned one of the
\* two stored rows, projected
SelectReturnsMatchingWitness ==
  \E t \in Txns :
    /\ OnlySelects(t) /\ pc[t] = "done" /\ ret[t].err = OK
    /\ Cardinality(DOMAIN backend0) = 2
    /\ \E i \in DOMAIN Operations(t) :
         /\ Operations(t)[i] = OpSelectColumns(<<Cond("key2", FN_LT, 2)>>, <<"key1">>)
         /\ response[t].Result[i].Rows = <<[key1 |-> "val1"]>>

\* ---------------------------------------------------- C19: comments commit
OnlyComments(t) ==
  /\ Operations(t) # <<>>
  /\ \A i \in DOMAIN Operations(t) : Operations(t)[i].Op = OP_COMMENT

\* C19: comments commit.  A batch of one or more comments, handled within
\* one timestamp second or not, trips no assertion and sets no batch error
\* but the I/O error of a failed submission, and the write batch it submits
\* has one put for every comment.
CommentsCommit ==
  \A t \in Txns :
    OnlyComments(t) =>
      /\ pc[t] # "panic"
      /\ response[t].Error \in {OK, E_IO_ERROR}
      /\ \A k \in WriteSubmissions(t) :
           Len(log[t][k].etcd.Then) = Len(Operations(t))

\* ---------------------------------------------------- C20: backend failure
\* the backend call of the submission logged at k failed
CallFailed(t, k) == log[t][k].ev = "submit" /\ log[t][k].failed

\* C20: backend failure.  When the backend call of the fetch or of the write
\* submission fails, the submission is the last step of Commit, Commit
\* returns revision -1 with the error `I/O error`, and the batch-level error
\* is `I/O error`; after a failed fetch submission no do handler has run and
\* no write was submitted, and the store is as it was before the call.
BackendFailure ==
  \A t \in Txns :
    \A k \in DOMAIN log[t] :
      CallFailed(t, k) =>
        /\ k = Len(log[t])
        /\ pc[t] = "done"
        /\ ret[t] = [rev |-> -1, err |-> E_IO_ERROR]
        /\ response[t].Error = E_IO_ERROR
        /\ backend.kv = backend0
        /\ log[t][k].phase = "fetch" =>
             /\ \A j \in DOMAIN log[t] : log[t][j].ev # "do"
             /\ ~HasWriteSubmission(t)

\* the backend call of a write submission that holds a put has failed
BackendFailureWitness ==
  \E t \in Txns :
    /\ log[t] # <<>>
    /\ CallFailed(t, Len(log[t]))
    /\ log[t][Len(log[t])].phase = "write"
    /\ \E i \in DOMAIN log[t][Len(log[t])].etcd.Then :
         log[t][Len(log[t])].etcd.Then[i].op = "put"
    /\ ret[t].err = E_IO_ERROR

\* ------------------------------------------- equality specification (C21)
\* isEqualSet and isEqualMap applied to every triple of bounded collections:
\* request holds the three collections, response the six comparisons
MaxLen == 2

SetElems == {1, 2, 3}

MapKeys == {"a", "b"}

MapVals == {1, 2}

\* every libovsdb.OvsSet of at most MaxLen elements, in every order and with
\* repetitions (GoSet is a slice)
BoundedSets == {[GoSet |-> s] : s \in UNION {[1..n -> SetElems] : n \in 0..MaxLen}}

\* every libovsdb.OvsMap over the keys
BoundedMaps == {[GoMap |-> m] : m \in UNION {[K -> MapVals] : K \in SUBSET MapKeys}}

NoComparison == [done |-> FALSE]

InitEq ==
  /\ request \in
       {[kind |-> "set", a |-> a, b |-> b, c |-> c] :
          a \in BoundedSets, b \in BoundedSets, c \in BoundedSets}
       \cup {[kind |-> "map", a |-> a, b |-> b, c |-> c] :
               a \in BoundedMaps, b \in BoundedMaps, c \in BoundedMaps}
  /\ response = NoComparison
  /\ cache = EmptyMap /\ mapUUID = EmptyMap /\ etcd = EtcdClear
  /\ genCount = 0 /\ txnLock = EmptyMap /\ pc = "new" /\ opIdx = 0
  /\ ret = EmptyMap /\ backend = StoreEmpty /\ clock = 0
  /\ log = <<>> /\ backend0 = EmptyMap

\* the comparisons of the three collections by the equality eq
Comparisons(eq(_, _)) ==
  [done |-> TRUE,
   aa |-> eq(request.a, request.a),
   ab |-> eq(request.a, request.b),
   ba |-> eq(request.b, request.a),
   bc |-> eq(request.b, request.c),
   ac |-> eq(request.a, request.c)]

CompareSets ==
  /\ pc = "new" /\ request.kind = "set"
  /\ response' = Comparisons(isEqualSet)
  /\ pc' = "done"
  /\ UNCHANGED <<request, cache, mapUUID, etcd, genCount, txnLock, opIdx, ret,
                 backend, clock, log, backend0>>

CompareMaps ==
  /\ pc = "new" /\ request.kind = "map"
  /\ response' = Comparisons(isEqualMap)
  /\ pc' = "done"
  /\ UNCHANGED <<request, cache, mapUUID, etcd, genCount, txnLock, opIdx, ret,
                 backend, clock, log, backend0>>

NextEq == CompareSets \/ CompareMaps

SpecEq == InitEq /\ [][NextEq]_vars

\* the elements of a set, the key-value pairs of a map
Members(x) ==
  IF request.kind = "set" THEN Range(x.GoSet)
  ELSE {<<k, x.GoMap[k]>> : k \in DOMAIN x.GoMap}

\* C21: equality laws.  Over every triple a, b, c of bounded sets or maps the
\* equality is reflexive, symmetric (also when one collection strictly
\* contains the other) and transitive, and two collections with the same
\* members in any order are equal.
EqualityLaws ==
  response.done =>
    /\ response.aa
    /\ response.ab => response.ba
    /\ (response.ab /\ response.bc) => response.ac
    /\ Members(request.a) = Members(request.b) => response.ab

\* ------------------------------------- stores with rows that fail the load
\* a stored row with a column the schema does not have (Cache.Unmarshal
\* fails), and one whose refs holds a named-uuid (Cache.Validate fails)
StoreBadColumn ==
  [kv |-> (Key1("u1") :> StoredRow("u1", "val1", 1)) @@
          (Key1("u2") :> (StoredRow("u2", "val2", 2) @@ [bogus |-> 1])),
   rev |-> 1]

StoreBadRef ==
  [kv |-> (Key1("u1") :> [StoredRow("u1", "val1", 1) EXCEPT
                            !.refs = WSet(<<WUUID("n9")>>)]),
   rev |-> 1]

MenuBad ==
  {OpInsert([key2 |-> 1]),
   OpUpdate([key1 |-> "val2"]),
   OpMutate("key2", MT_SUM, 1),
   OpMutate("key2", MT_QUOTIENT, 0),
   OpDeleteAll,
   OpSelectAll}

InitBad == InitWith(OneTxn(MenuBad), {StoreEmpty, StoreOne, StoreBadColumn, StoreBadRef})

SpecBad == InitBad /\ [][Next]_vars

\* -------------------------------------------- C22: error implies no commit
ReturnedError(t) == pc[t] = "done" /\ ret[t].err # OK

\* C22: error implies no commit.  Whenever Commit has returned an error,
\* whether from a handler, from a backend call or from the cache unmarshal or
\* validation after a backend call, no write submission of the transaction
\* was applied: each one it made failed in the backend call, and the store
\* holds what it held when the transaction was created.
ErrorImpliesNoCommit ==
  \A t \in Txns :
    ReturnedError(t) =>
      /\ \A k \in WriteSubmissions(t) : log[t][k].failed
      /\ backend.kv = backend0

\* Commit has returned the error of the cache validation that follows the
\* fetch call, for a batch that holds a delete
ErrorImpliesNoCommitWitness ==
  \E t \in Txns :
    /\ ReturnedError(t)
    /\ ret[t].err = E_INTEGRITY_VIOLATION
    /\ \E i \in DOMAIN Operations(t) : Operations(t)[i].Op = OP_DELETE
    /\ backend0 # EmptyMap

\* ------------------------------------ C23: compaction consistent per key
\* the keys with more than one write in the sequence
WrittenTwice(then) ==
  {etcdOpKey(then[i]) : i \in {j \in DOMAIN then :
     \E m \in DOMAIN then : m # j /\ etcdOpKey(then[m]) = etcdOpKey(then[j])}}

\* C23: compaction keeps the write and event streams consistent per key.  For
\* every key written more than once before the compaction, the compacted
\* buffer holds one write and one event of the key, the event is the one
\* that was appended with the retained (last) write, and so a retained
\* delete is paired with a delete event and a retained put with a put event.
CompactionPairsPerKey ==
  \A t \in Txns :
    \A k \in WriteSubmissions(t) :
      LET before == log[t][k - 1].before
          after == log[t][k].etcd
      IN \A key \in WrittenTwice(before.Then) :
           (\A i \in DOMAIN before.Then :
              etcdOpKey(before.Then[i]) = key => before.Events[i] # NilEvent) =>
             LET last == CHOOSE i \in DOMAIN before.Then :
                           /\ etcdOpKey(before.Then[i]) = key
                           /\ \A j \in DOMAIN before.Then :
                                etcdOpKey(before.Then[j]) = key => j <= i
             IN /\ \E j \in DOMAIN after.Then : after.Then[j] = before.Then[last]
                /\ Cardinality(EventsOf(after.Events, key)) = 1
                /\ \A e \in EventsOf(after.Events, key) :
                     /\ after.Events[e].Type =
                          (IF before.Then[last].op = "delete" THEN "DELETE" ELSE "PUT")
                     /\ after.Events[e].Type = before.Events[last].Type

\* --------------------------------------------- C24: duplicate UUID on insert
\* the insert at index i gives the UUID of a row the store held in its table
InsertsStoredUUID(t, i) ==
  LET op == Operations(t)[i]
  IN /\ op.Op = OP_INSERT /\ Has(op, "UUID") /\ Has(op, "Table")
     /\ NewDataKey(DBName, op.Table, op.UUID.GoUUID) \in DOMAIN backend0

NoDelete(t) == \A i \in DOMAIN Operations(t) : Operations(t)[i].Op # OP_DELETE

\* C24: duplicate UUID on insert.  When an insert gives the UUID of a row
\* that its table holds in the store, the do handler of the insert, whenever
\* it runs, fails with `duplicate uuid`, and the stored row stays as it was,
\* whatever other operations (deletes aside) the batch holds.
DuplicateUUIDRejected ==
  \A t \in Txns :
    \A i \in DOMAIN Operations(t) :
      (InsertsStoredUUID(t, i) /\ NoDelete(t)) =>
        LET key == NewDataKey(DBName, Operations(t)[i].Table,
                              Operations(t)[i].UUID.GoUUID)
        IN /\ \A k \in DOMAIN log[t] :
                (log[t][k].ev = "do" /\ log[t][k].i = i) => log[t][k].err = E_DUP_UUID
           /\ key \in DOMAIN backend.kv
           /\ backend.kv[key] = backend0[key]

\* ------------------------------------ C25: delete visible to later operations
\* the do handler of operation i has run and returned nil
DidOK(t, i) ==
  \E k \in DOMAIN log[t] : log[t][k].ev = "do" /\ log[t][k].i = i /\ log[t][k].err = OK

DidWith(t, i, err) ==
  \E k \in DOMAIN log[t] : log[t][k].ev = "do" /\ log[t][k].i = i /\ log[t][k].err = err

IsDeleteAll(op) == op.Op = OP_DELETE /\ ~Has(op, "Where")

NoInsertBetween(t, i, j) ==
  \A m \in (i + 1)..(j - 1) : Operations(t)[m].Op # OP_INSERT

\* C25: delete is visible to later operations of the transaction.  After the
\* do handler of a delete without a where clause, a later update, mutate or
\* delete of the table matches no row (no insert in between), a later insert
\* is not rejected as a duplicate of a deleted row, and after the commit the
\* store holds no row of the table unless a later insert created one.
DeleteVisibleLater ==
  \A t \in Txns :
    \A i \in DOMAIN Operations(t) :
      (IsDeleteAll(Operations(t)[i]) /\ DidOK(t, i)) =>
        /\ \A j \in DOMAIN Operations(t) :
             (/\ j > i
              /\ Operations(t)[j].Op \in {OP_UPDATE, OP_MUTATE, OP_DELETE}
              /\ NoInsertBetween(t, i, j)
              /\ DidOK(t, j)) => response[t].Result[j].Count = 0
        /\ \A j \in DOMAIN Operations(t) :
             (/\ j > i
              /\ Operations(t)[j].Op = OP_INSERT
              /\ NoInsertBetween(t, i, j)) => ~DidWith(t, j, E_DUP_UUID)
        /\ (/\ pc[t] = "done" /\ ret[t].err = OK
            /\ NoInsertBetween(t, i, Len(Operations(t)) + 1)) =>
             KeysOfTable(backend.kv, Operations(t)[i].Table) = {}

\* ------------------------------------------------ C26: wait is a set test
\* a wait with table, timeout, rows and a supported until
WellFormedWait(op) ==
  /\ op.Op = OP_WAIT
  /\ {"Table", "Timeout", "Rows", "Until"} \subseteq DOMAIN op
  /\ op.Until \in {FN_EQ, FN_NE}

\* the stored row carries every column of the expected row with its value
Agree(expected, actual) ==
  \A c \in DOMAIN expected : c \in DOMAIN actual /\ actual[c] = expected[c]

\* the selected rows and `rows` are the same set, rows being compared on the
\* columns that `rows` names
SameRowSets(selected, rows) ==
  /\ \A a \in selected : \E e \in rows : Agree(e, a)
  /\ \A e \in rows : \E a \in selected : Agree(e, a)

\* the rows of the table the wait reads (a batch of waits changes no row)
WaitSelected(op) ==
  {backend0[k] : k \in KeysOfTable(backend0, op.Table)}

ExpectedRows(op) == {op.Rows[k] : k \in DOMAIN op.Rows}

\* C26: wait is a one-shot snapshot test.  The do handler of a wait returns
\* nil exactly when (until "==") the selected rows and `rows` are the same
\* set or (until "!=") they differ, and `timed out` otherwise.
WaitIsSetTest ==
  \A t \in Txns :
    \A i \in DOMAIN Operations(t) :
      WellFormedWait(Operations(t)[i]) =>
        \A k \in DOMAIN log[t] :
          (log[t][k].ev = "do" /\ log[t][k].i = i) =>
            log[t][k].err =
              IF (Operations(t)[i].Until = FN_EQ)
                   = SameRowSets(WaitSelected(Operations(t)[i]), ExpectedRows(Operations(t)[i]))
              THEN OK ELSE E_TIMEOUT

\* the same for waits whose `rows` is not empty
WaitIsSetTestNonEmpty ==
  \A t \in Txns :
    \A i \in DOMAIN Operations(t) :
      (WellFormedWait(Operations(t)[i]) /\ Len(Operations(t)[i].Rows) > 0) =>
        \A k \in DOMAIN log[t] :
          (log[t][k].ev = "do" /\ log[t][k].i = i) =>
            log[t][k].err =
              IF (Operations(t)[i].Until = FN_EQ)
                   = SameRowSets(WaitSelected(Operations(t)[i]), ExpectedRows(Operations(t)[i]))
              THEN OK ELSE E_TIMEOUT

\* ------------------------------------ C27: a loaded row fails the schema
\* the stored row has a column the table lacks, or a value its column forbids
BadStoredRow(table, row) ==
  \/ \E c \in DOMAIN row : c \notin {COL_UUID, COL_VERSION} /\ ~LookupColumn(table, c)
  \/ ~RowValidate(table, RowUnmarshal(table, row))

\* the fetch submission of t reached the backend and loaded such a row
LoadedBad(t) ==
  \E k \in DOMAIN log[t] :
    /\ log[t][k].ev = "submit" /\ log[t][k].phase = "fetch" /\ ~log[t][k].failed
    /\ \E key \in DOMAIN GetFromEtcd(EmptyMap, [kv |-> backend0, rev |-> 1], log[t][k].etcd.Then) :
         BadStoredRow(key.TableName, backend0[key])

\* C27: post-load validation failure.  When the fetch submission loads a row
\* that fails the schema unmarshal or validation, Commit returns
\* `referential integrity violation` with revision -1, no do handler runs
\* and no write batch is submitted.
LoadValidationFailure ==
  \A t \in Txns :
    LoadedBad(t) =>
      /\ pc[t] = "done"
      /\ ret[t] = [rev |-> -1, err |-> E_INTEGRITY_VIOLATION]
      /\ response[t].Error = E_INTEGRITY_VIOLATION
      /\ \A k \in DOMAIN log[t] :
           /\ log[t][k].ev # "do"
           /\ log[t][k].ev = "submit" => log[t][k].phase = "fetch"
      /\ backend.kv = backend0

\* a transaction returned after loading a row whose refs holds a named-uuid
LoadValidationFailureWitness ==
  \E t \in Txns :
    /\ LoadedBad(t)
    /\ pc[t] = "done"
    /\ \E key \in DOMAIN backend0 :
         /\ \A c \in DOMAIN backend0[key] :
              c \in {COL_UUID, COL_VERSION} \/ LookupColumn(key.TableName, c)
         /\ ~RowValidate(key.TableName, RowUnmarshal(key.TableName, backend0[key]))

\* ------------------------------------- C28: cache key and _uuid agree
\* operations that name _uuid in a row, an update or a mutation, next to
\* ones that do not
MenuKey ==
  {OpInsert([key2 |-> 1]),
   OpInsertUUID([key1 |-> "val1"], "u2"),
   OpInsert([_uuid |-> WUUID("u2")]),
   OpUpdate([key1 |-> "val2"]),
   OpUpdate([_uuid |-> WUUID("u2")]),
   OpMutate("key2", MT_SUM, 1),
   OpMutate("_uuid", MT_SUM, 1)}

InitKey == InitWith(OneTxn(MenuKey), {StoreOne, StoreTwo})

SpecKey == InitKey /\ [][Next]_vars

\* the UUID a row carries in _uuid, in wire or in typed form
RowUUID(row) ==
  IF "GoUUID" \in DOMAIN row[COL_UUID] THEN row[COL_UUID].GoUUID ELSE row[COL_UUID].val

StoreAgrees(kv) ==
  \A key \in DOMAIN kv : COL_UUID \in DOMAIN kv[key] /\ RowUUID(kv[key]) = key.UUID

\* C28: cache key/UUID agreement.  When every stored row carries the UUID of
\* its key in _uuid, every row of a transaction's cache carries in _uuid the
\* UUID of the key it is cached under, in every state.
CacheKeyAgreement ==
  StoreAgrees(backend0) =>
    \A t \in Txns :
      \A key \in DOMAIN cache[t] :
        /\ COL_UUID \in DOMAIN cache[t][key]
        /\ RowUUID(cache[t][key]) = key.UUID

\* an update naming _uuid was refused and an insert naming _uuid went into
\* the cache, over a store whose row was loaded
CacheKeyAgreementWitness ==
  \E t \in Txns :
    /\ StoreAgrees(backend0) /\ backend0 # EmptyMap
    /\ \E i \in DOMAIN Operations(t) :
         /\ Operations(t)[i].Op = OP_INSERT
         /\ COL_UUID \in DOMAIN Operations(t)[i].Row
         /\ DidOK(t, i)
    /\ \E j \in DOMAIN Operations(t) :
         /\ Operations(t)[j].Op = OP_UPDATE
         /\ COL_UUID \in DOMAIN Operations(t)[j].Row
         /\ DidWith(t, j, E_CONSTRAINT_VIOLATION)
    /\ Cardinality(DOMAIN cache[t]) >= 2

\* ---------------------------- C29: client input and the validation panic
\* the operation aimed at the table whose map column holds exactly one pair
OnTable2(op) == [op EXCEPT !.Table = "table2"]

Key2(uuid) == NewDataKey(DBName, "table2", uuid)

\* one schema-valid row of table2: an empty set and the map {a: b}
StoreCard ==
  [kv |-> (Key2("u1") :> [set |-> WSet(<<>>), map |-> WMap({<<"a", "b">>}),
                          _uuid |-> WUUID("u1")]),
   rev |-> 1]

MenuCard ==
  {OnTable2(OpMutate("map", MT_INSERT, WMap({<<"c", "d">>}))),
   OnTable2(OpMutate("map", MT_INSERT, WMap({<<"a", "e">>}))),
   OnTable2(OpMutate("map", MT_DELETE, WMap({<<"a", "b">>}))),
   OnTable2(OpUpdate([map |-> WMap({<<"c", "d">>})])),
   OnTable2(OpInsert([map |-> WMap({<<"a", "b">>})])),
   OnTable2(OpInsert([set |-> WSet(<<"x">>)])),
   OnTable2(OpDeleteAll)}

InitCard == InitWith(OneTxn(MenuCard), {StoreEmpty, StoreCard})

SpecCard == InitCard /\ [][Next]_vars

\* Commit panicked on the cache validation that follows a handler which
\* returned nil
ValidationPanic(t) ==
  /\ pc[t] = "panic"
  /\ log[t] # <<>>
  /\ log[t][Len(log[t])].ev \in {"pre", "do"}
  /\ log[t][Len(log[t])].err = OK
  /\ ~CacheValidate(cache[t])

\* C29: client input cannot trip the validation panic.  Over a schema-valid
\* store no batch reaches the state in which Commit panics on the cache
\* validation that follows a handler.
NoValidationPanic ==
  \A t \in Txns :
    (\A key \in DOMAIN backend0 : ~BadStoredRow(key.TableName, backend0[key])) =>
      ~ValidationPanic(t)

\* -------------------------------- C30: a condition on an absent column
\* row u1 is stored without key2, row u2 with key2 = 1
StoreAbsent ==
  [kv |-> (Key1("u1") :> Without(StoredRow("u1", "val1", 1), "key2")) @@
          (Key1("u2") :> StoredRow("u2", "val2", 1)),
   rev |-> 1]

WhereKey2 == <<Cond("key2", FN_EQ, 1)>>

\* select, update, mutate and delete of the rows with key2 = 1, and an insert
MenuAbsent ==
  {OpSelect(WhereKey2),
   OpUpdate([key1 |-> "val3"]) @@ [Where |-> WhereKey2],
   OpMutate("key2", MT_SUM, 1) @@ [Where |-> WhereKey2],
   OpDeleteAll @@ [Where |-> WhereKey2],
   OpInsert([key2 |-> 1])}

InitAbsent == InitWith(OneTxn(MenuAbsent), {StoreTwo, StoreAbsent})

SpecAbsent == InitAbsent /\ [][Next]_vars

\* the operation has the where clause on key2 and some stored row of its
\* table lacks key2
WhereOnAbsent(op) ==
  /\ Has(op, "Where")
  /\ \E key \in KeysOfTable(backend0, op.Table) : "key2" \notin DOMAIN backend0[key]

\* C30 as stated: the do handler of an operation whose condition names a
\* column that a row lacks skips that row and returns nil.
AbsentColumnSkipped ==
  \A t \in Txns :
    \A i \in DOMAIN Operations(t) :
      WhereOnAbsent(Operations(t)[i]) =>
        \A k \in DOMAIN log[t] :
          (log[t][k].ev = "do" /\ log[t][k].i = i) => log[t][k].err = OK

\* C30, amended: evaluating a condition whose column the row lacks fails
\* with `constraint violation`; the do handler returns that error and the
\* transaction ends with it, nothing written.
AbsentColumnFails ==
  \A t \in Txns :
    \A i \in DOMAIN Operations(t) :
      WhereOnAbsent(Operations(t)[i]) =>
        /\ \A k \in DOMAIN log[t] :
             (log[t][k].ev = "do" /\ log[t][k].i = i) =>
               /\ log[t][k].err = E_CONSTRAINT_VIOLATION
               /\ pc[t] = "done"
               /\ ret[t] = [rev |-> -1, err |-> E_CONSTRAINT_VIOLATION]
               /\ response[t].Result[i].Error = E_CONSTRAINT_VIOLATION
        /\ backend.kv = backend0

\* a delete with the where clause ran over the store whose row u1 lacks key2
AbsentColumnFailsWitness ==
  \E t \in Txns :
    \E i \in DOMAIN Operations(t) :
      /\ WhereOnAbsent(Operations(t)[i])
      /\ Operations(t)[i].Op = OP_DELETE
      /\ DidWith(t, i, E_CONSTRAINT_VIOLATION)
      /\ pc[t] = "done"

\* ------------------------------------------- C31: conditions on _version
VersionCond == Cond(COL_VERSION, FN_EQ, WUUID("u1"))

NotU1 == Cond(COL_UUID, FN_NE, WUUID("u1"))

\* where clauses holding the _version condition alone, after a conjunct that
\* row u1 fails, and before it
MenuVer ==
  {OpSelect(<<VersionCond>>),
   OpUpdate([key1 |-> "val3"]) @@ [Where |-> <<VersionCond>>],
   OpDeleteAll @@ [Where |-> <<VersionCond>>],
   OpUpdate([key1 |-> "val3"]) @@ [Where |-> <<NotU1, VersionCond>>],
   OpDeleteAll @@ [Where |-> <<VersionCond, NotU1>>],
   OpInsert([key2 |-> 1])}

InitVer == InitWith(OneTxn(MenuVer), {StoreEmpty, StoreOne, StoreTwo})

SpecVer == InitVer /\ [][Next]_vars

HasVersionCond(op) ==
  Has(op, "Where") /\ \E k \in DOMAIN op.Where : op.Where[k].Column = COL_VERSION

\* C31: _version conditions are always rejected.  The do handler of an
\* operation whose where clause holds a condition on _version returns
\* `constraint violation`, whatever the position of the condition and the
\* rows of the table.
VersionAlwaysRejected ==
  \A t \in Txns :
    \A i \in DOMAIN Operations(t) :
      HasVersionCond(Operations(t)[i]) =>
        \A k \in DOMAIN log[t] :
          (log[t][k].ev = "do" /\ log[t][k].i = i) =>
            log[t][k].err = E_CONSTRAINT_VIOLATION

\* ------------------------------ C32: update and mutate guards and the table
WhereNone == <<Cond("key2", FN_EQ, 7)>>

\* updates and mutates of an unknown column and of _uuid, without a where
\* clause and with one that no stored row satisfies, and a legal update
MenuGuard ==
  {OpUpdate([bogus |-> 1]),
   OpUpdate([_uuid |-> WUUID("u2")]),
   OpUpdate([bogus |-> 1]) @@ [Where |-> WhereNone],
   OpUpdate([_uuid |-> WUUID("u2")]) @@ [Where |-> WhereNone],
   OpMutate("bogus", MT_SUM, 1),
   OpMutate("_version", MT_SUM, 1) @@ [Where |-> WhereNone],
   OpUpdate([key1 |-> "val3"])}

InitGuard == InitWith(OneTxn(MenuGuard), {StoreEmpty, StoreOne})

SpecGuard == InitGuard /\ [][Next]_vars

IllegalColumn(table, c) == c \in {COL_UUID, COL_VERSION} \/ ~LookupColumn(table, c)

\* an update whose row, or a mutate one of whose mutations, names a column
\* that is unknown or is _uuid or _version
Guarded(op) ==
  \/ /\ op.Op = OP_UPDATE
     /\ \E c \in DOMAIN op.Row : IllegalColumn(op.Table, c)
  \/ /\ op.Op = OP_MUTATE
     /\ \E k \in DOMAIN op.Mutations : IllegalColumn(op.Table, op.Mutations[k].Column)

\* C32: update and mutate guards do not depend on the table contents.  The
\* do handler of an update or mutate that names an unknown column, _uuid or
\* _version returns `constraint violation`, and a batch holding such an
\* operation writes nothing, whether or not the where clause matches rows.
GuardsIgnoreTable ==
  \A t \in Txns :
    \A i \in DOMAIN Operations(t) :
      Guarded(Operations(t)[i]) =>
        /\ \A k \in DOMAIN log[t] :
             (log[t][k].ev = "do" /\ log[t][k].i = i) =>
               log[t][k].err = E_CONSTRAINT_VIOLATION
        /\ backend.kv = backend0

\* ------------------------------------------------- C33: the result count
\* key2 = 1, written as two conditions of which row u2 fails the second
WhereOne == <<Cond("key2", FN_GE, 1), Cond("key2", FN_LE, 1)>>

\* update, mutate and delete with a where clause that one row of two
\* satisfies, with an empty where clause and without one
MenuCount ==
  {OpUpdate([key1 |-> "val3"]) @@ [Where |-> WhereOne],
   OpMutate("key2", MT_SUM, 1) @@ [Where |-> WhereOne],
   OpDeleteAll @@ [Where |-> WhereOne],
   OpUpdate([key1 |-> "val3"]) @@ [Where |-> <<>>],
   OpMutate("key2", MT_SUM, 1),
   OpDeleteAll,
   OpInsert([key2 |-> 1])}

InitCount == InitWith(OneTxn(MenuCount), {StoreEmpty, StoreTwo})

SpecCount == InitCount /\ [][Next]_vars

\* the typed row satisfies the condition on an integer column
Satisfies(row, c) ==
  /\ c.Column \in DOMAIN row
  /\ CASE c.Function = FN_EQ -> row[c.Column] = c.Value
       [] c.Function = FN_GE -> row[c.Column] >= c.Value
       [] c.Function = FN_LE -> row[c.Column] <= c.Value

\* the keys of the cached rows of the operation's table that satisfy every
\* condition of its where clause
SelectedKeys(c, op) ==
  {key \in DOMAIN c :
     /\ key.TableName = op.Table
     /\ Has(op, "Where") => \A k \in DOMAIN op.Where : Satisfies(c[key], op.Where[k])}

\* the step of t is the do handler of an update, mutate or delete, and it
\* returned nil
ModifierDone(t) ==
  /\ Len(log'[t]) = Len(log[t]) + 1
  /\ log'[t][Len(log'[t])].ev = "do"
  /\ log'[t][Len(log'[t])].err = OK
  /\ Operations(t)[log'[t][Len(log'[t])].i].Op \in {OP_UPDATE, OP_MUTATE, OP_DELETE}

\* the count, the writes and the events the handler of operation i left
CountedAsSelected(t, i) ==
  LET op == Operations(t)[i]
      sel == SelectedKeys(cache[t], op)
      old == Len(etcd[t].Then)
      added == (old + 1)..Len(etcd'[t].Then)
  IN /\ response'[t].Result[i].Count = Cardinality(sel)
     /\ Len(etcd'[t].Then) = old + Cardinality(sel)
     /\ Len(etcd'[t].Events) = Len(etcd[t].Events) + Cardinality(sel)
     /\ {etcdOpKey(etcd'[t].Then[k]) : k \in added} = sel
     /\ \A k \in added :
          /\ etcd'[t].Then[k].op = IF op.Op = OP_DELETE THEN "delete" ELSE "put"
          /\ etcdEventKey(etcd'[t].Events[k - old + Len(etcd[t].Events)]) =
               etcdOpKey(etcd'[t].Then[k])

\* C33: result count.  When the do handler of an update, mutate or delete
\* returns nil, Count is the number of cached rows of the table that satisfy
\* every condition of the where clause (all rows without one), and exactly
\* those rows got one write and one event appended.
ResultCount ==
  [][\A t \in Txns : ModifierDone(t) => CountedAsSelected(t, log'[t][Len(log'[t])].i)]_vars

\* an update with a where clause counted one row of the two in the cache
ResultCountWitness ==
  \E t \in Txns :
    \E i \in DOMAIN Operations(t) :
      /\ Operations(t)[i].Op = OP_UPDATE
      /\ Has(Operations(t)[i], "Where") /\ Len(Operations(t)[i].Where) = 2
      /\ DidOK(t, i)
      /\ response[t].Result[i].Count = 1
      /\ Cardinality(DOMAIN cache[t]) >= 2

\* --------------------------------------------------- C34: division by zero
OnTable3(op) == [op EXCEPT !.Table = "table3"]

Key3(uuid) == NewDataKey(DBName, "table3", uuid)

\* row u1 of table1 and row u2 of table3 {integer: 6, real: 3/2}
StoreDiv ==
  [kv |-> (Key1("u1") :> StoredRow("u1", "val1", 1)) @@
          (Key3("u2") :> [integer |-> 6, real |-> Real(3, 2), _uuid |-> WUUID("u2")]),
   rev |-> 1]

\* two mutations in one operation: the first succeeds, the second divides by 0
MutateTwice ==
  [Op |-> OP_MUTATE, Table |-> "table1",
   Mutations |-> <<[Column |-> "key2", Mutator |-> MT_SUM, Value |-> 1],
                   [Column |-> "key2", Mutator |-> MT_QUOTIENT, Value |-> 0]>>]

MenuDiv ==
  {OpMutate("key2", MT_QUOTIENT, 0),
   OpMutate("key2", MT_REMAINDER, 0),
   OpMutate("key2", MT_REMAINDER, 2),
   OpMutate("key2", MT_SUM, 1),
   MutateTwice,
   OnTable3(OpMutate("real", MT_REMAINDER, Real(1, 2))) @@ [Where |-> <<>>],
   OnTable3(OpMutate("real", MT_QUOTIENT, Real(0, 1))) @@ [Where |-> <<>>],
   OnTable3(OpMutate("real", MT_SUM, Real(1, 2))) @@ [Where |-> <<>>]}

InitDiv == InitWith(OneTxn(MenuDiv), {StoreEmpty, StoreDiv})

SpecDiv == InitDiv /\ [][Next]_vars

\* the mutate divides an integer column by zero in one of its mutations
DividesByZero(op) ==
  /\ op.Op = OP_MUTATE
  /\ \E k \in DOMAIN op.Mutations :
       /\ Schema[op.Table][op.Mutations[k].Column].Type = "integer"
       /\ op.Mutations[k].Mutator \in {MT_QUOTIENT, MT_REMAINDER}
       /\ op.Mutations[k].Value = 0

\* the mutate applies %= to a real column
RemainderOfReal(op) ==
  /\ op.Op = OP_MUTATE
  /\ \E k \in DOMAIN op.Mutations :
       /\ Schema[op.Table][op.Mutations[k].Column].Type = "real"
       /\ op.Mutations[k].Mutator = MT_REMAINDER

\* the step of t is the do handler of operation i over a table with a row
DoStepWithRows(t, i) ==
  /\ pc[t] = "do" /\ opIdx[t] = i
  /\ Len(log'[t]) = Len(log[t]) + 1
  /\ log'[t][Len(log'[t])].ev = "do"
  /\ CacheTable(cache[t], DBName, Operations(t)[i].Table) # {}

\* once such an operation has failed, the transaction has returned its error
\* and the store is as it was
FailedAndUnwritten(t) ==
  \A i \in DOMAIN Operations(t) :
    /\ (DividesByZero(Operations(t)[i]) /\ DidWith(t, i, E_DOMAIN_ERROR)) =>
         /\ pc[t] = "done" /\ ret[t] = [rev |-> -1, err |-> E_DOMAIN_ERROR]
         /\ backend.kv = backend0
    /\ (RemainderOfReal(Operations(t)[i]) /\ DidWith(t, i, E_CONSTRAINT_VIOLATION)) =>
         /\ pc[t] = "done" /\ ret[t] = [rev |-> -1, err |-> E_CONSTRAINT_VIOLATION]
         /\ backend.kv = backend0

\* C34: division by zero.  The do handler of a mutate with /= or %= 0 on an
\* integer column, over a table with a row, returns `domain error` and leaves
\* the cache and the write batch as they were; %= on a real column returns
\* `constraint violation`; the transaction returns that error and nothing is
\* written to the store.
DivisionByZero ==
  /\ [](\A t \in Txns : FailedAndUnwritten(t))
  /\ [][\A t \in Txns : \A i \in DOMAIN Operations(t) :
          DoStepWithRows(t, i) =>
            /\ DividesByZero(Operations(t)[i]) =>
                 /\ log'[t][Len(log'[t])].err = E_DOMAIN_ERROR
                 /\ cache'[t] = cache[t]
                 /\ etcd'[t] = etcd[t]
            /\ RemainderOfReal(Operations(t)[i]) =>
                 /\ log'[t][Len(log'[t])].err = E_CONSTRAINT_VIOLATION
                 /\ cache'[t] = cache[t]
                 /\ etcd'[t] = etcd[t]]_vars

\* a mutate that adds 1 and then divides by 0 failed on a stored row after an
\* earlier mutate of the batch had changed the row
DivisionByZeroWitness ==
  \E t \in Txns :
    \E i \in DOMAIN Operations(t) :
      /\ i > 1
      /\ DividesByZero(Operations(t)[i]) /\ Len(Operations(t)[i].Mutations) = 2
      /\ DidWith(t, i, E_DOMAIN_ERROR)
      /\ DidOK(t, 1) /\ Operations(t)[1].Op = OP_MUTATE
      /\ backend0 # EmptyMap
      /\ pc[t] = "done"

\* ------------------------------------------ C35: one TxnLock, many threads
\* One TxnLock used by several goroutines, statement by statement.  txnLock
\* is the registry: root is the holder of the root mutex (0: free), databases
\* maps a database to the holder of its mutex (0: free).  request[th] is the
\* database of the call thread th is in, pc[th] its position:
\*   "idle"        not in a call, holding nothing
\*   "lockRoot"    in Lock, at lock.root.Lock()
\*   "lockGet"     in Lock, root held, at the lookup of the database
\*   "lockDb"      in Lock, root held, at db.Lock()
\*   "lockDefer"   in Lock, at the deferred lock.root.Unlock()
\*   "held"        Lock returned, Unlock not yet called
\*   "unlockRoot"  in Unlock, at lock.root.Lock()
\*   "unlockGet"   in Unlock, root held, at the lookup
\*   "unlockDb"    in Unlock, at the deferred db.Unlock()
\*   "unlockDefer" in Unlock, at the deferred lock.root.Unlock()
LockThreads == {1, 2, 3}

LockDBs == {"d", "e"}

InitLock ==
  /\ txnLock = [root |-> 0, databases |-> EmptyMap]
  /\ pc = [th \in LockThreads |-> "idle"]
  /\ request = [th \in LockThreads |-> ""]
  /\ response = EmptyMap /\ cache = EmptyMap /\ mapUUID = EmptyMap
  /\ etcd = EtcdClear /\ genCount = 0 /\ opIdx = 0
  /\ ret = EmptyMap /\ backend = StoreEmpty /\ clock = 0
  /\ log = <<>> /\ backend0 = EmptyMap

LockRest ==
  UNCHANGED <<response, cache, mapUUID, etcd, genCount, opIdx, ret, backend,
              clock, log, backend0>>

\* the thread calls lock.Lock(db)
CallLock(th, db) ==
  /\ pc[th] = "idle"
  /\ request' = [request EXCEPT ![th] = db]
  /\ pc' = [pc EXCEPT ![th] = "lockRoot"]
  /\ UNCHANGED txnLock /\ LockRest

\* TxnLock.Lock: lock.root.Lock()
LockRoot(th) ==
  /\ pc[th] = "lockRoot"
  /\ txnLock.root = 0
  /\ txnLock' = [txnLock EXCEPT !.root = th]
  /\ pc' = [pc EXCEPT ![th] = "lockGet"]
  /\ UNCHANGED request /\ LockRest

\* TxnLock.Lock: the entry of the database, made when it is missing
LockGet(th) ==
  /\ pc[th] = "lockGet"
  /\ txnLock' = IF request[th] \in DOMAIN txnLock.databases
                THEN txnLock
                ELSE [txnLock EXCEPT !.databases = SetField(@, request[th], 0)]
  /\ pc' = [pc EXCEPT ![th] = "lockDb"]
  /\ UNCHANGED request /\ LockRest

\* TxnLock.Lock: db.Lock(), with the root mutex still held
LockDb(th) ==
  /\ pc[th] = "lockDb"
  /\ txnLock.databases[request[th]] = 0
  /\ txnLock' = [txnLock EXCEPT !.databases = SetField(@, request[th], th)]
  /\ pc' = [pc EXCEPT ![th] = "lockDefer"]
  /\ UNCHANGED request /\ LockRest

\* TxnLock.Lock: the deferred lock.root.Unlock(), and the return
LockReturn(th) ==
  /\ pc[th] = "lockDefer"
  /\ txnLock' = [txnLock EXCEPT !.root = 0]
  /\ pc' = [pc EXCEPT ![th] = "held"]
  /\ UNCHANGED request /\ LockRest

\* the thread calls lock.Unlock(db) for the database it locked
CallUnlock(th) ==
  /\ pc[th] = "held"
  /\ pc' = [pc EXCEPT ![th] = "unlockRoot"]
  /\ UNCHANGED <<request, txnLock>> /\ LockRest

\* TxnLock.Unlock: lock.root.Lock()
UnlockRoot(th) ==
  /\ pc[th] = "unlockRoot"
  /\ txnLock.root = 0
  /\ txnLock' = [txnLock EXCEPT !.root = th]
  /\ pc' = [pc EXCEPT ![th] = "unlockGet"]
  /\ UNCHANGED request /\ LockRest

\* TxnLock.Unlock: the lookup; a missing entry panics
UnlockGet(th) ==
  /\ pc[th] = "unlockGet"
  /\ pc' = [pc EXCEPT ![th] = IF request[th] \in DOMAIN txnLock.databases
                               THEN "unlockDb" ELSE "panic"]
  /\ UNCHANGED <<request, txnLock>> /\ LockRest

\* TxnLock.Unlock: the deferred db.Unlock(), run first
UnlockDb(th) ==
  /\ pc[th] = "unlockDb"
  /\ txnLock' = [txnLock EXCEPT !.databases = SetField(@, request[th], 0)]
  /\ pc' = [pc EXCEPT ![th] = "unlockDefer"]
  /\ UNCHANGED request /\ LockRest

\* TxnLock.Unlock: the deferred lock.root.Unlock(), and the return
UnlockReturn(th) ==
  /\ pc[th] = "unlockDefer"
  /\ txnLock' = [txnLock EXCEPT !.root = 0]
  /\ pc' = [pc EXCEPT ![th] = "idle"]
  /\ UNCHANGED request /\ LockRest

\* the statements of thread th inside Lock and Unlock that wait for nothing
LockStep(th) ==
  LockGet(th) \/ LockReturn(th) \/ UnlockGet(th) \/ UnlockDb(th) \/ UnlockReturn(th)

NextLock ==
  \E th \in LockThreads :
    \/ \E db \in LockDBs : CallLock(th, db)
    \/ LockRoot(th)
    \/ LockGet(th)
    \/ LockDb(th)
    \/ LockReturn(th)
    \/ CallUnlock(th)
    \/ UnlockRoot(th)
    \/ UnlockGet(th)
    \/ UnlockDb(th)
    \/ UnlockReturn(th)

SpecLock == InitLock /\ [][NextLock]_vars

\* every thread keeps running, a thread that acquired Lock(d) calls
\* Unlock(d), and a mutex that is free again and again is handed to each of
\* its waiters (sync.Mutex hands over to a waiter that starves)
SpecLockFair ==
  /\ SpecLock
  /\ \A th \in LockThreads :
       /\ WF_vars(LockStep(th))
       /\ WF_vars(CallUnlock(th))
       /\ SF_vars(LockRoot(th))
       /\ SF_vars(LockDb(th))
       /\ SF_vars(UnlockRoot(th))

InLock(th) == pc[th] \in {"lockRoot", "lockGet", "lockDb", "lockDefer"}

InUnlock(th) == pc[th] \in {"unlockRoot", "unlockGet", "unlockDb", "unlockDefer"}

\* the holder of a database is at the root mutex of Unlock while a thread
\* waiting in Lock for that database holds the root mutex: neither can move,
\* and no other thread can enter Lock or Unlock for any database
TxnLockStuck ==
  \E holder \in LockThreads, waiter \in LockThreads :
    /\ pc[holder] = "unlockRoot" /\ pc[waiter] = "lockDb"
    /\ txnLock.root = waiter
    /\ request[waiter] = request[holder]
    /\ txnLock.databases[request[holder]] = holder

\* C35: TxnLock is deadlock-free when shared.  With every thread that
\* acquired Lock(d) calling Unlock(d) later, every Lock call returns in the
\* end and every Unlock call returns in the end; the holder of a database is
\* never kept out of Unlock by a thread that waits for it inside Lock.
TxnLockReturns ==
  /\ []~TxnLockStuck
  /\ \A th \in LockThreads :
       /\ InLock(th) ~> (pc[th] = "held")
       /\ InUnlock(th) ~> (pc[th] = "idle")

\* ------------------------------------------- C36: one write submission
\* the phases of the submissions of t, in the order they were made
Submissions(t) ==
  LET at == SelectSeq([k \in DOMAIN log[t] |-> k], LAMBDA k : log[t][k].ev = "submit")
  IN [j \in DOMAIN at |-> log[t][at[j]].phase]

\* the buffer the do handlers of t had filled when compaction began
Produced(t) ==
  LET k == CHOOSE k \in DOMAIN log[t] : log[t][k].ev = "dedup"
  IN log[t][k].before

\* the step submits the write batch of t
WriteStep(t) == pc[t] = "write" /\ pc'[t] # "write"

\* C36: one write submission per transaction.  A Commit makes no submission,
\* or the fetch submission alone, or the fetch submission and then one write
\* submission; the write submission carries the whole compacted buffer of the
\* do handlers and reaches the store as one backend transaction, or not at
\* all.
OneWriteSubmission ==
  /\ [](\A t \in Txns :
          Submissions(t) \in {<<>>, <<"fetch">>, <<"fetch", "write">>})
  /\ [][\A t \in Txns :
          WriteStep(t) =>
            LET e == log'[t][Len(log'[t])]
            IN /\ e.ev = "submit" /\ e.phase = "write"
               /\ e.etcd.Then = etcdRemoveDup(Produced(t)).Then
               /\ backend' = IF e.failed THEN backend
                             ELSE EtcdCommit(backend, e.etcd.Then)]_vars

\* a committed transaction whose do handlers produced three writes, of which
\* compaction kept two, both submitted in its one write submission
OneWriteSubmissionWitness ==
  \E t \in Txns :
    /\ pc[t] = "done" /\ ret[t].err = OK
    /\ Submissions(t) = <<"fetch", "write">>
    /\ Len(Produced(t).Then) = 3
    /\ LET e == log[t][Len(log[t])]
       IN /\ Len(e.etcd.Then) = 2
          /\ \A i \in DOMAIN e.etcd.Then : IsWrite(e.etcd.Then[i])
          /\ backend.rev = 2

\* ------------------------------------------------ C37: fetch completeness
WhereU2 == Cond(COL_UUID, FN_EQ, WUUID("u2"))

\* selects whose pre handler issues a narrow get (a _uuid conjunct first, a
\* _uuid conjunct after a conjunct on key2 or on _version, includes) and
\* selects whose pre handler gets the whole table
MenuFetch ==
  {OpSelect(<<WhereU2>>),
   OpSelect(<<Cond("key2", FN_EQ, 1), WhereU2>>),
   OpSelect(<<Cond(COL_UUID, FN_IN, WUUID("u1"))>>),
   OpSelectColumns(<<VersionCond, WhereU2>>, <<"key1">>),
   OpSelectColumns(<<Cond("key2", FN_EQ, 1)>>, <<"key1", "key2">>),
   OpSelectAll}

InitFetch == InitWith(OneTxn(MenuFetch), {StoreOne, StoreTwo, StoreAbsent})

SpecFetch == InitFetch /\ [][Next]_vars

\* the cache a get of the whole table loads from the store
WideCache(t, table) ==
  CacheUnmarshal(GetFromEtcd(EmptyMap, backend,
                             <<OpGet(NewTableKey(request[t].DBName, table))>>))

\* the pre handler of the operation gets one row by its key
NarrowGet(t, op) ==
  doesWhereContainCondTypeUUID(op.Table, mapUUID[t], op).uuid # ""

\* the step of t is the do handler of a select
SelectStep(t) ==
  /\ pc[t] = "do"
  /\ Operations(t)[opIdx[t]].Op = OP_SELECT
  /\ Len(log'[t]) = Len(log[t]) + 1

\* every stored row of the table that the where clause selects is cached
Complete(t, op) ==
  \A key \in DOMAIN WideCache(t, op.Table) :
    Let(isRowSelectedByWhere(op.Table, mapUUID[t], WideCache(t, op.Table)[key], op),
        LAMBDA sel : (sel.err = OK /\ sel.ok) => key \in DOMAIN cache[t])

\* the handler's error and rows are those it gives over the whole table
SameAsWide(t, op) ==
  \E ord \in SetToSeqs(CacheTable(WideCache(t, op.Table), request[t].DBName, op.Table)) :
    Let(doSelect([St(t) EXCEPT !.cache = WideCache(t, op.Table)], op,
                 response[t].Result[opIdx[t]], ord),
        LAMBDA wide :
          /\ log'[t][Len(log'[t])].err = wide.err
          /\ wide.err = OK =>
               Range(response'[t].Result[opIdx[t]].Rows) = Range(wide.res.Rows))

\* C37: fetch completeness.  When the do handler of a select runs, every
\* stored row of its table that satisfies its where clause is in the cache,
\* and the handler returns the error and the rows it would return over the
\* whole table, whether its pre handler got one row by key or the table.
FetchComplete ==
  [][\A t \in Txns :
       SelectStep(t) =>
         /\ Complete(t, Operations(t)[opIdx[t]])
         /\ SameAsWide(t, Operations(t)[opIdx[t]])]_vars

\* the first half alone: the rows the where clause selects are cached
FetchLoadsSelected ==
  [][\A t \in Txns : SelectStep(t) => Complete(t, Operations(t)[opIdx[t]])]_vars

\* ------------------------------------- C38: modify events and the old value
\* the step of t is the do handler of an update or a mutate
ModifyStep(t) ==
  /\ pc[t] = "do"
  /\ Operations(t)[opIdx[t]].Op \in {OP_UPDATE, OP_MUTATE}
  /\ Len(log'[t]) = Len(log[t]) + 1

\* the events the step appended to the buffer of t
Appended(t) ==
  {etcd'[t].Events[k] : k \in (Len(etcd[t].Events) + 1)..Len(etcd'[t].Events)}

\* C38: modify events carry the old value.  Every modify event a do handler
\* of update or mutate appends has as PrevKv the serialization of the cached
\* row before the handler ran and as Kv the serialization after it; the two
\* differ whenever the handler changed the row.
ModifyCarriesOld ==
  [][\A t \in Txns :
       ModifyStep(t) =>
         \A ev \in Appended(t) :
           /\ etcdEventIsModify(ev)
           /\ ev.Kv.Value = makeValue(ev.Kv.Key.TableName, cache'[t][ev.Kv.Key])
           /\ ev.PrevKv.Value = makeValue(ev.Kv.Key.TableName, cache[t][ev.Kv.Key])
           /\ cache'[t][ev.Kv.Key] # cache[t][ev.Kv.Key] =>
                ev.PrevKv.Value # ev.Kv.Value]_vars

\* what the code does instead: the previous value of every modify event is
\* its value
ModifyPrevIsNew ==
  \A t \in Txns :
    \A k \in DOMAIN etcd[t].Events :
      etcdEventIsModify(etcd[t].Events[k]) =>
        etcd[t].Events[k].PrevKv.Value = etcd[t].Events[k].Kv.Value

\* --------------------------------------- C39: pairing after every append
\* every handler that appends a write: create, modify, delete, comment, and a
\* select whose pre handler appends a get
MenuPair ==
  {OpInsert([key2 |-> 1]),
   OpUpdate([key1 |-> "val2"]),
   OpDeleteAll,
   OpComment,
   OpSelectAll}

InitPair == InitWith(OneTxn(MenuPair), {StoreEmpty, StoreOne})

SpecPair == InitPair /\ [][Next]_vars

\* the step of t is a do handler
DoStep(t) == pc[t] = "do" /\ Len(log'[t]) = Len(log[t]) + 1

\* the step of t is a fetch submission that returned nil
FetchedStep(t) == pc[t] = "fetch" /\ pc'[t] \in {"do", "dedup"}

\* C39: pairing assertion after every append.  After every do handler the
\* write list of the buffer is as long as the event list (nil placeholders
\* included) plus the nil-event counter, the handler has appended as many
\* events as writes and its Assert has not panicked; the Clear after the fetch
\* submission leaves the write list and the event list empty and the counter
\* zero.
PairingAfterAppend ==
  /\ [][\A t \in Txns :
          DoStep(t) =>
            /\ Len(etcd'[t].Then) = Len(etcd'[t].Events) + etcd'[t].EventsNilCount
            /\ Len(etcd'[t].Then) - Len(etcd[t].Then) =
                 Len(etcd'[t].Events) - Len(etcd[t].Events)
            /\ pc'[t] # "panic"]_vars
  /\ [][\A t \in Txns :
          FetchedStep(t) =>
            /\ etcd'[t].Then = <<>> /\ etcd'[t].Events = <<>>
            /\ etcd'[t].EventsNilCount = 0]_vars

\* the do handlers of a batch appended three writes with a put event, a
\* delete event and the nil placeholder of a comment, after a fetch
\* submission whose gets Clear dropped
PairingAfterAppendWitness ==
  \E t \in Txns :
    /\ pc[t] = "dedup"
    /\ \E k \in DOMAIN log[t] :
         /\ log[t][k].ev = "submit" /\ log[t][k].phase = "fetch"
         /\ log[t][k].etcd.Then # <<>>
    /\ NilEvent \in Range(etcd[t].Events)
    /\ \E ev \in Range(etcd[t].Events) : ev.Type = "DELETE"
    /\ \E ev \in Range(etcd[t].Events) : ev.Type = "PUT"
    /\ Len(etcd[t].Then) = 3
====
